---- MODULE Spec2Model ----
(***************************************************************************)
(* A model of the thesis format checker (checker.py, utils.py, config.py). *)
(*                                                                         *)
(* Conventions                                                             *)
(*  - Python None is the empty tuple None, a defined value v is Some(v).   *)
(*  - Lengths are python-docx Length values, i.e. integers in EMU          *)
(*    (360000 EMU = 1 cm, 12700 EMU = 1 pt).                               *)
(*  - Font sizes are in half-points (the unit of w:sz), 24 = 12 pt.        *)
(*  - Turkish text is written in ASCII ("GIRIS" for GİRİŞ, "OZET" for      *)
(*    ÖZET, "KAYNAKCA", "ICINDEKILER", "Sekil", ...).                      *)
(***************************************************************************)
EXTENDS Integers, Sequences, FiniteSets, TLC

VARIABLES
    document,   \* the loaded docx.Document (read-only input of a run)
    self,       \* the fields of the ThesisChecker instance
    pc,         \* position inside ThesisChecker.analyze
    loop,       \* the locals of the _check_paragraphs loop
    report,     \* what analyze returned (None until it returns)
    lookup,     \* the locals of a StyleResolver lookup in progress
    trace       \* not program state: the string hash seed of the process
                \* and the paragraphs handed to _check_normal_paragraph_format

vars == <<document, self, pc, loop, report, lookup, trace>>

None == <<>>
Some(v) == <<v>>
Val(o) == o[1]

\* Python's `x or y` on optional values.
OrElse(o, d) == IF o = None THEN d ELSE Val(o)

Abs(x) == IF x < 0 THEN -x ELSE x

RECURSIVE SumSeq(_)
SumSeq(s) ==
    IF s = <<>> THEN 0
    ELSE IF Len(s) = 1 THEN s[1]
    ELSE LET half == Len(s) \div 2
         IN  SumSeq(SubSeq(s, 1, half)) + SumSeq(SubSeq(s, half + 1, Len(s)))

(***************************************************************************)
(* Bounds of the model.                                                    *)
(***************************************************************************)
NumStyles == 2

(***************************************************************************)
(* Unit conversion constants (utils.py) and configuration (config.py).     *)
(***************************************************************************)
EMU_PER_CM == 360000
EMU_PER_PT == 12700

(***************************************************************************)
(* StyleResolver (utils.py).                                               *)
(*                                                                         *)
(* A style table maps a style id to a record                               *)
(*   [font_name, font_size, base_style, pf]                                *)
(* where pf maps the paragraph_format attribute names to optional values.  *)
(* base_style is None or the id of another style; nothing in the resolver  *)
(* checks that the base_style links are acyclic.                           *)
(***************************************************************************)
ParagraphAttributes ==
    {"alignment", "left_indent", "right_indent", "first_line_indent",
     "space_before", "space_after", "line_spacing_rule", "line_spacing"}

NoParagraphFormat == [a \in ParagraphAttributes |-> None]

\* The hard fallbacks of get_effective_font_name / get_effective_font_size.
FallbackFontName == "Calibri"
FallbackFontSize == 22

\* Step 1 of get_effective_font_name: direct run formatting, then the run's
\* own rPr/rFonts element (ascii or hAnsi, then the theme attributes).
DirectFontName(run) ==
    IF run.name # None THEN run.name
    ELSE IF run.hAnsi # None THEN run.hAnsi
    ELSE IF run.theme # None
         THEN IF Val(run.theme) \in {"minorHAnsi", "minorAscii"}
              THEN Some("Times New Roman")
              ELSE Some("Tema (" \o Val(run.theme) \o ")")
    ELSE None

\* Step 1 of get_effective_font_size.
DirectFontSize(run) == run.size

\* The style a font lookup starts from: run._parent.style.
RunParentStyle(para) == para.style

\* What one style contributes to a lookup.
StyleFontName(styles, s) == styles[s].font_name
StyleFontSize(styles, s) == styles[s].font_size
StyleParagraphAttribute(styles, s, attr_name) == styles[s].pf[attr_name]

\* Step 3 of get_effective_font_name answering with the configured font.
ConfiguredFontName(doc) == "Times New Roman"

\* Step 3: document defaults, or the hard fallback.
DefaultFontName(doc) == OrElse(doc.doc_defaults.font_name, FallbackFontName)
DefaultFontSize(doc) == OrElse(doc.doc_defaults.font_size, FallbackFontSize)
\* doc_defaults.get(attr_name): only the keys _get_doc_defaults fills.
DefaultParagraphAttribute(doc, attr_name) ==
    IF attr_name \in {"line_spacing", "line_spacing_rule", "space_before",
                      "space_after", "alignment"}
    THEN doc.doc_defaults.pf[attr_name]
    ELSE None

\* round(num / den) to the nearest integer, ties to even (Python's round on
\* an exactly representable tie); num >= 0, den > 0.
RoundDiv(num, den) ==
    LET q == num \div den
        r == num % den
    IN  IF 2 * r < den THEN q
        ELSE IF 2 * r > den THEN q + 1
        ELSE IF q % 2 = 0 THEN q ELSE q + 1

\* The tail of get_effective_line_spacing, in hundredths of a line: the
\* named rules first, then a float multiple, then a Length (val.pt / 12.0
\* rounded to one decimal), else 1.0.  rule is a WD_LINE_SPACING member
\* (SINGLE 0, ONE_POINT_FIVE 1, DOUBLE 2, AT_LEAST 3, EXACTLY 4, MULTIPLE 5);
\* val is <<"float", hundredths>>, <<"length", emu>> or <<"int", n>>.
LineSpacingValue(rule, val) ==
    IF rule = Some(1) THEN 150
    ELSE IF rule = Some(2) THEN 200
    ELSE IF rule = Some(0) THEN 100
    ELSE IF val # None /\ Val(val)[1] = "float" THEN Val(val)[2]
    ELSE IF val # None /\ Val(val)[1] = "length"
         THEN 10 * RoundDiv(10 * Val(val)[2], EMU_PER_PT * 12)
    ELSE 100

(***************************************************************************)
(* The resolver's lookups as the loops they are: one action per call, per  *)
(* iteration of `while style:` and per return.                             *)
(***************************************************************************)
IdleLookup ==
    [fn |-> "", attr |-> "", state |-> "idle", style |-> None,
     result |-> None, rule |-> None, run |-> 0, iter |-> 0]

TargetParagraph == document.paragraphs[1]

\* What the current style contributes to the lookup in progress.
StyleValue(styles, s, fn, attr) ==
    CASE fn = "font_name" -> StyleFontName(styles, s)
      [] fn = "font_size" -> StyleFontSize(styles, s)
      [] OTHER -> StyleParagraphAttribute(styles, s, attr)

\* What the lookup in progress returns when the chain is exhausted.
ChainEndValue(doc, fn, attr) ==
    CASE fn = "font_name" -> Some(DefaultFontName(doc))
      [] fn = "font_size" -> Some(DefaultFontSize(doc))
      [] OTHER -> DefaultParagraphAttribute(doc, attr)

\* The state a finished chain walk leaves: get_effective_line_spacing goes
\* on with its second lookup and then with its own return statement.
Returned(lk, v) ==
    IF lk.fn = "line_spacing" /\ lk.attr = "line_spacing_rule"
    THEN [lk EXCEPT !.state = "rule_done", !.rule = v, !.style = None]
    ELSE IF lk.fn = "line_spacing"
    THEN [lk EXCEPT !.state = "val_done", !.result = v, !.style = None]
    ELSE [lk EXCEPT !.state = "done", !.result = v, !.style = None]

\* get_effective_paragraph_attribute, up to the start of its loop.
StartParagraphAttribute(lk, para, attr_name) ==
    IF para.pf[attr_name] # None
    THEN Returned([lk EXCEPT !.attr = attr_name], para.pf[attr_name])
    ELSE [lk EXCEPT !.attr = attr_name, !.state = "walking",
                    !.style = para.style]

Call_get_effective_font_name(k) ==
    /\ pc = "resolver" /\ lookup.state = "idle"
    /\ LET d == DirectFontName(TargetParagraph.runs[k])
           lk == [lookup EXCEPT !.fn = "font_name", !.run = k]
       IN  lookup' = IF d # None THEN Returned(lk, d)
                     ELSE [lk EXCEPT !.state = "walking",
                                     !.style = RunParentStyle(TargetParagraph)]
    /\ UNCHANGED <<document, self, pc, loop, report, trace>>

Call_get_effective_font_size(k) ==
    /\ pc = "resolver" /\ lookup.state = "idle"
    /\ LET d == DirectFontSize(TargetParagraph.runs[k])
           lk == [lookup EXCEPT !.fn = "font_size", !.run = k]
       IN  lookup' = IF d # None THEN Returned(lk, d)
                     ELSE [lk EXCEPT !.state = "walking",
                                     !.style = RunParentStyle(TargetParagraph)]
    /\ UNCHANGED <<document, self, pc, loop, report, trace>>

Call_get_effective_paragraph_attribute(attr_name) ==
    /\ pc = "resolver" /\ lookup.state = "idle"
    /\ lookup' = StartParagraphAttribute(
                     [lookup EXCEPT !.fn = "paragraph_attribute"],
                     TargetParagraph, attr_name)
    /\ UNCHANGED <<document, self, pc, loop, report, trace>>

Call_get_effective_line_spacing ==
    /\ pc = "resolver" /\ lookup.state = "idle"
    /\ lookup' = StartParagraphAttribute(
                     [lookup EXCEPT !.fn = "line_spacing"],
                     TargetParagraph, "line_spacing_rule")
    /\ UNCHANGED <<document, self, pc, loop, report, trace>>

\* The second lookup of get_effective_line_spacing.
LineSpacingSecondLookup ==
    /\ pc = "resolver" /\ lookup.state = "rule_done"
    /\ lookup' = StartParagraphAttribute(lookup, TargetParagraph, "line_spacing")
    /\ UNCHANGED <<document, self, pc, loop, report, trace>>

LineSpacingReturn ==
    /\ pc = "resolver" /\ lookup.state = "val_done"
    /\ lookup' = [lookup EXCEPT !.state = "done",
                     !.result = Some(LineSpacingValue(lookup.rule, lookup.result))]
    /\ UNCHANGED <<document, self, pc, loop, report, trace>>

\* One evaluation of `while style:` and, when it is entered, of its body.
\* iter is the parity of the number of iterations executed so far, so that
\* an iteration that leaves `style` as it was is still a step of the run.
WalkStyleChain ==
    /\ pc = "resolver" /\ lookup.state = "walking"
    /\ lookup' =
         IF lookup.style = None
         THEN Returned(lookup, ChainEndValue(document, lookup.fn, lookup.attr))
         ELSE LET s == Val(lookup.style)
                  v == StyleValue(document.styles, s, lookup.fn, lookup.attr)
              IN  IF v # None THEN Returned(lookup, v)
                  ELSE [lookup EXCEPT !.style = document.styles[s].base_style,
                                      !.iter = 1 - lookup.iter]
    /\ UNCHANGED <<document, self, pc, loop, report, trace>>

(***************************************************************************)
(* Documents.                                                              *)
(*                                                                         *)
(* A run is [text, name, hAnsi, theme, size, bold, italic, rstyle]: its    *)
(* text, w:rFonts ascii / hAnsi / asciiTheme, w:sz, w:b, w:i and its       *)
(* character style.  A paragraph is [runs, style, pf, numPr]; its text is  *)
(* the concatenation of the texts of its runs.                             *)
(***************************************************************************)
Run(text) ==
    [text |-> text, name |-> None, hAnsi |-> None, theme |-> None,
     size |-> None, bold |-> None, italic |-> None, rstyle |-> None]

Paragraph(runs, style) ==
    [runs |-> runs, style |-> style, pf |-> NoParagraphFormat, numPr |-> FALSE]

NoDocDefaults ==
    [font_name |-> None, font_size |-> None, pf |-> NoParagraphFormat]

\* A section: its page margins and its footer.
Section(top, bottom, left, right) ==
    [top_margin |-> top, bottom_margin |-> bottom, left_margin |-> left,
     right_margin |-> right, footer_distance |-> Some(450000),
     footer_paragraphs |-> <<>>]

\* Document(path) either raises or yields the object model.  The documents
\* of this model have no tables, no footnotes part and no reference list.
MakeDocument(paragraphs, styles, doc_defaults) ==
    [loadable |-> TRUE, paragraphs |-> paragraphs, styles |-> styles,
     doc_defaults |-> doc_defaults, sections |-> <<>>, tables |-> <<>>,
     footnotes_part |-> FALSE, load_error |-> None]

(***************************************************************************)
(* Text.                                                                   *)
(*                                                                         *)
(* A text is the sequence of its whitespace-separated words, so that       *)
(* text.split() is the text itself, count_words is its length, " ".join    *)
(* is concatenation and the empty text is <<>>.  The words are taken from  *)
(* a vocabulary in which no word is a substring of another except where    *)
(* SubstringPairs says so; str.upper, the regular expressions and the      *)
(* `in` tests of the source are evaluated word by word.                    *)
(***************************************************************************)
\* str.upper() on a word of the vocabulary.
Upper(w) ==
    CASE w = "Tablo" -> "TABLO"   [] w = "Sekil" -> "SEKIL"
      [] w = "Veri" -> "VERI"     [] w = "Analizi" -> "ANALIZI"
      [] w = "Kuramsal" -> "KURAMSAL" [] w = "Cerceve" -> "CERCEVE"
      [] w = "kelime" -> "KELIME"
      [] w = "ve" -> "VE"         [] w = "analizi" -> "ANALIZI"
      [] w = "Kaynak:" -> "KAYNAK:"
      [] w = "Yilmaz," -> "YILMAZ,"  [] w = "Kaya," -> "KAYA,"
      [] w = "Tez" -> "TEZ"       [] w = "yazimi." -> "YAZIMI."
      [] OTHER -> w

UpperText(text) == [k \in DOMAIN text |-> Upper(text[k])]

\* len(text): the characters of the words and one blank between two words.
TextLen(text) ==
    IF text = <<>> THEN 0
    ELSE SumSeq([k \in DOMAIN text |-> Len(text[k])]) + Len(text) - 1

\* (word, key) pairs where key is a proper substring of word.
SubstringPairs ==
    { <<"KAYNAK:", "KAYNAK">>, <<"EKLER", "EK">>, <<"SEKIL", "EK">>,
      <<"ICINDEKILER", "EK">> }

\* `key in text_upper` for a key of one or more words.
Contains(text_upper, key) ==
    \E k \in 0 .. (Len(text_upper) - Len(key)) :
        \A j \in 1 .. Len(key) :
            \/ text_upper[k + j] = key[j]
            \/ Len(key) = 1 /\ <<text_upper[k + j], key[j]>> \in SubstringPairs

ContainsAny(text_upper, keys) == \E key \in keys : Contains(text_upper, key)

Ordinals ==
    {"BIRINCI", "IKINCI", "UCUNCU", "DORDUNCU", "BESINCI", "ALTINCI",
     "YEDINCI", "SEKIZINCI", "DOKUZUNCU", "ONUNCU"}

\* utils.is_chapter_title_only
is_chapter_title_only(text) ==
    LET u == UpperText(text)
    IN  Len(u) = 2 /\ u[1] \in Ordinals /\ u[2] = "BOLUM"

\* utils.is_chapter_heading: the anchored patterns, on the upper-cased text.
is_chapter_heading(text) ==
    \/ is_chapter_title_only(text)
    \/ UpperText(text) \in
         { <<"GIRIS">>, <<"SONUC">>, <<"SONUC", "VE", "ONERILER">>,
           <<"KAYNAKCA">>, <<"OZET">>, <<"ABSTRACT">>, <<"ONSOZ">>,
           <<"ON", "SOZ">>, <<"ICINDEKILER">>, <<"TABLOLAR", "LISTESI">>,
           <<"SEKILLER", "LISTESI">>,
           <<"SIMGELER", "VE", "KISALTMALAR", "LISTESI">>, <<"EKLER">>,
           <<"ETIK", "KURUL", "ONAYI">>, <<"BILIMSEL", "ETIGE", "UYGUNLUK">>,
           <<"TEZ", "OZGUNLUK", "SAYFASI">>, <<"KILAVUZA", "UYGUNLUK">>,
           <<"KABUL", "VE", "ONAY", "TUTANAGI">> }

\* The leading numeral of a numbered heading: its level, or None.
\* ^\d+\.\d+\.\d+\.  ^\d+\.\d+\.  ^\d+\.
HeadingNumberLevel(w) ==
    CASE w \in {"1.1.1.", "2.3.1."} -> Some(3)
      [] w \in {"1.1.", "1.2.", "2.3."} -> Some(2)
      [] w \in {"1.", "2.", "3."} -> Some(1)
      [] OTHER -> None

\* Words that start with a letter of [A-ZÇĞİÖŞÜ].
StartsUpper(w) ==
    w \in {"Veri", "Analizi", "Kuramsal", "Cerceve", "Tablo", "Sekil",
           "GIRIS", "OZET", "ABSTRACT", "KAYNAKCA", "ICINDEKILER", "SONUC",
           "BOLUM", "Kaynak:", "I.", "Yilmaz,", "Kaya,", "Tez", "A.", "A.B."}
    \cup Ordinals

\* utils.is_numbered_heading, first component.
is_numbered_heading(text) ==
    /\ Len(text) >= 2
    /\ HeadingNumberLevel(text[1]) # None
    /\ StartsUpper(text[2])

\* The "X.Y:" word of a caption: (chapter, item) as the digit strings the
\* regular expression captures, or None.   \d+\.\s*\d+\s*:
CaptionNumber(w) ==
    CASE w = "1.1:" -> Some(<<"1", "1">>)
      [] w = "1.2:" -> Some(<<"1", "2">>)
      [] w = "1.3:" -> Some(<<"1", "3">>)
      [] w = "2.1:" -> Some(<<"2", "1">>)
      [] OTHER -> None

\* utils.is_table_caption / utils.is_figure_caption (re.IGNORECASE).
is_table_caption(text) ==
    Len(text) >= 2 /\ Upper(text[1]) = "TABLO" /\ CaptionNumber(text[2]) # None

is_figure_caption(text) ==
    Len(text) >= 2 /\ Upper(text[1]) = "SEKIL" /\ CaptionNumber(text[2]) # None

\* utils.is_dialogue_or_transcript: ^([A-ZÖÇŞİĞÜ][a-zöçşiğü]*\s*\d*|A|K|E|Ö)\s*:
is_dialogue_or_transcript(text) ==
    text # <<>> /\ text[1] \in {"Kaynak:", "A:", "Arastirmaci:"}

\* utils.is_source_citation
is_source_citation(text) ==
    text # <<>> /\ Upper(text[1]) \in {"KAYNAK:", "SOURCE:"}

\* utils.is_list_item: numbering properties, a list marker, or "1." / "a)".
is_list_item(para, text) ==
    \/ para.numPr
    \/ /\ text # <<>>
       /\ \/ text[1] \in {"-", "*", "+", ">"}
          \/ /\ Len(text) >= 2
             /\ text[1] \in {"1.", "2.", "3.", "1)", "a)", "a.", "I."}

\* Words without a letter or digit, and words whose first character is not
\* a letter.
PunctuationOnly(w) == w \in {"....", "-", "*", "+", ">"}

NonAlphaInitial(w) ==
    \/ PunctuationOnly(w)
    \/ HeadingNumberLevel(w) # None
    \/ CaptionNumber(w) # None
    \/ w \in {"12", "1)"}

\* utils.is_uppercase_text: every word outside the conjunction list is
\* upper case (a word of digits only is not).
is_uppercase_text(text) ==
    /\ text # <<>>
    /\ \A k \in DOMAIN text :
          \/ PunctuationOnly(text[k])
          \/ text[k] \in {"ve", "veya", "ile", "VE"}
          \/ /\ Upper(text[k]) = text[k]
             /\ StartsUpper(text[k])

\* utils.is_title_case: every word that starts with a letter starts with a
\* capital, the exception words after the first word excepted.
is_title_case(text) ==
    \A k \in DOMAIN text :
        \/ NonAlphaInitial(text[k])
        \/ StartsUpper(text[k])
        \/ k > 1 /\ text[k] \in {"ve", "veya", "ile"}

\* COVER_PATTERNS, searched in the upper-cased text.
MatchesCoverPattern(text) ==
    LET u == UpperText(text)
    IN  \/ u \in {<<"T.C.">>, <<"TC">>}
        \/ ContainsAny(u, { <<"SOSYAL", "BILIMLER", "ENSTITUSU">>,
                            <<"BILIM", "DALI">>, <<"YUKSEK", "LISANS">>,
                            <<"DOKTORA">>, <<"HAZIRLAYAN">>, <<"DANISMAN">> })
        \/ u # <<>> /\ u[Len(u)] \in {"TEZ", "TEZI"}

\* ThesisChecker._is_cover_or_skip
is_cover_or_skip(index, text) ==
    \/ index < self.cover_ended_at
    \/ MatchesCoverPattern(text)

\* The text of a paragraph: the concatenation of the texts of its runs.
RECURSIVE ConcatTexts(_)
ConcatTexts(runs) ==
    IF runs = <<>> THEN <<>> ELSE Head(runs).text \o ConcatTexts(Tail(runs))

ParaText(para) == ConcatTexts(para.runs)

(***************************************************************************)
(* Configuration: ThesisConfig's defaults (config.py), lengths in EMU,     *)
(* font sizes in half-points, line spacing in hundredths of a line.        *)
(***************************************************************************)
DEFAULT_CONFIG ==
    [margin_top |-> 1080000, margin_bottom |-> 1080000,
     margin_left |-> 1080000, margin_right |-> 1080000,
     margin_tolerance_cm |-> 36000,
     font_size_tolerance_pt |-> 1,
     font_name |-> "Times New Roman",
     font_size_body |-> 24,
     font_size_block_quote |-> 22,
     font_size_chapter_heading |-> 28,
     font_size_subheading |-> 24,
     font_size_table_caption |-> 24,
     font_size_figure_caption |-> 24,
     font_size_table_content |-> 22,
     line_spacing_body |-> 150,
     paragraph_first_line_indent |-> 450000,
     paragraph_spacing_before |-> 76200,
     paragraph_spacing_after |-> 76200,
     reference_hanging_indent |-> 360000,
     abstract_min_words |-> 200,
     abstract_max_words |-> 250]

config == DEFAULT_CONFIG

\* ErrorCategory
ErrorCategory ==
    [MARGIN |-> "Kenar Boslugu Hatalari", FONT |-> "Yazi Tipi Hatalari",
     FONT_SIZE |-> "Yazi Boyutu Hatalari",
     LINE_SPACING |-> "Satir Araligi Hatalari",
     PARAGRAPH |-> "Paragraf Hatalari", HEADING |-> "Baslik Hatalari",
     TABLE |-> "Tablo Hatalari", FIGURE |-> "Sekil Hatalari",
     ABSTRACT |-> "Ozet Hatalari", REFERENCE |-> "Kaynakca Hatalari",
     SECTION |-> "Bolum Hatalari", NUMBERING |-> "Numaralandirma Hatalari",
     SPELLING |-> "Yazim Hatalari", FOOTNOTE |-> "Dipnot Hatalari"]

\* FormatError (the snippet is left out: no rule reads it).
FormatError(category, message, location, expected, found) ==
    [category |-> category, message |-> message, location |-> location,
     expected |-> expected, found |-> found]

\* The dict a paragraph rule returns, before _check_paragraphs adds the
\* location.
Issue(category, message, expected, found) ==
    [category |-> category, message |-> message, expected |-> expected,
     found |-> found]

AtLocation(issues, location) ==
    [k \in DOMAIN issues |->
        FormatError(issues[k].category, issues[k].message, location,
                    issues[k].expected, issues[k].found)]

(***************************************************************************)
(* Number formatting.                                                      *)
(***************************************************************************)
\* f"{x:.1f}" of a value given in tenths.
FmtTenths(x) == ToString(x \div 10) \o "." \o ToString(x % 10)

\* f"{s:.1f}pt" of a size in half-points.
FmtHalfPoints(hp) == ToString(hp \div 2) \o (IF hp % 2 = 0 THEN ".0" ELSE ".5")

\* f"{x:.2f}" of a length in EMU, in cm.
FmtCm2(emu) ==
    LET h == RoundDiv(Abs(emu) * 100, EMU_PER_CM)
    IN  (IF emu < 0 /\ h > 0 THEN "-" ELSE "") \o ToString(h \div 100) \o "."
        \o (IF h % 100 < 10 THEN "0" ELSE "") \o ToString(h % 100)

\* int(length.pt)
IntPt(emu) == IF emu >= 0 THEN emu \div EMU_PER_PT ELSE -((-emu) \div EMU_PER_PT)

\* ", ".join(seq)
RECURSIVE JoinComma(_)
JoinComma(seq) ==
    IF seq = <<>> THEN ""
    ELSE IF Len(seq) = 1 THEN seq[1]
    ELSE seq[1] \o ", " \o JoinComma(Tail(seq))

\* sorted(set of integers)
RECURSIVE SortedSeq(_)
SortedSeq(S) ==
    IF S = {} THEN <<>>
    ELSE LET m == CHOOSE x \in S : \A y \in S : x <= y
         IN  <<m>> \o SortedSeq(S \ {m})

\* The iteration order of a set of strings.  It depends on the string hash
\* seed of the interpreter process; hash_seed names the order of this run.
StringSetOrders(S) ==
    { q \in [1 .. Cardinality(S) -> S] : \A x \in S : \E k \in DOMAIN q : q[k] = x }

IterationOrder(S, hash_seed) ==
    LET orders == StringSetOrders(S)
        first == CHOOSE q \in orders : TRUE
    IN  IF hash_seed = 0 \/ Cardinality(S) < 2 THEN first
        ELSE [k \in DOMAIN first |-> first[Len(first) + 1 - k]]

(***************************************************************************)
(* The resolver's functions as the rules call them.  ChainValue is the     *)
(* `while style:` loop run to its end; on a style table whose base_style   *)
(* links form a cycle that defines no value the loop has no end (see       *)
(* WalkStyleChain), so the documents analysed below carry acyclic tables.  *)
(***************************************************************************)
RECURSIVE ChainValue(_, _, _, _)
ChainValue(styles, st, fn, attr) ==
    IF st = None THEN None
    ELSE LET v == StyleValue(styles, Val(st), fn, attr)
         IN  IF v # None THEN v
             ELSE ChainValue(styles, styles[Val(st)].base_style, fn, attr)

get_effective_font_name(doc, para, run) ==
    LET d == DirectFontName(run)
        c == ChainValue(doc.styles, RunParentStyle(para), "font_name", "")
    IN  IF d # None THEN Val(d)
        ELSE IF c # None THEN Val(c)
        ELSE DefaultFontName(doc)

get_effective_font_size(doc, para, run) ==
    LET d == DirectFontSize(run)
        c == ChainValue(doc.styles, RunParentStyle(para), "font_size", "")
    IN  IF d # None THEN Val(d)
        ELSE IF c # None THEN Val(c)
        ELSE DefaultFontSize(doc)

get_effective_paragraph_attribute(doc, para, attr_name) ==
    LET c == ChainValue(doc.styles, para.style, "paragraph_attribute", attr_name)
    IN  IF para.pf[attr_name] # None THEN para.pf[attr_name]
        ELSE IF c # None THEN c
        ELSE DefaultParagraphAttribute(doc, attr_name)

get_effective_line_spacing(doc, para) ==
    LineSpacingValue(
        get_effective_paragraph_attribute(doc, para, "line_spacing_rule"),
        get_effective_paragraph_attribute(doc, para, "line_spacing"))

\* The methods class StyleResolver defines.
StyleResolverMethods ==
    {"__init__", "_get_doc_defaults", "get_effective_font_name",
     "get_effective_font_size", "get_effective_paragraph_attribute",
     "get_effective_line_spacing"}

(***************************************************************************)
(* Rules.  A rule's outcome is [t, p, issues, raised]: what it adds to     *)
(* total_checks and passed_checks, the issue dicts it returns, and whether *)
(* an exception left it (then t, p and issues are what it had done so      *)
(* far).                                                                   *)
(***************************************************************************)
Outcome(t, p, issues) == [t |-> t, p |-> p, issues |-> issues, raised |-> FALSE]

Raise(t, p, issues) == [t |-> t, p |-> p, issues |-> issues, raised |-> TRUE]

\* r1 and then, unless r1 raised, r2.
AndThen(r1, r2) ==
    IF r1.raised THEN r1
    ELSE [t |-> r1.t + r2.t, p |-> r1.p + r2.p,
          issues |-> r1.issues \o r2.issues, raised |-> r2.raised]

NonBlankRuns(para) == {k \in DOMAIN para.runs : para.runs[k].text # <<>>}

\* ThesisChecker._check_font
WrongFonts(para) ==
    { get_effective_font_name(document, para, para.runs[k]) : k \in NonBlankRuns(para) }
    \ {config.font_name, "Symbol", "Wingdings", "Cambria Math", "Webdings", "MS Mincho"}

check_font(para) ==
    IF ~self.resolver THEN Outcome(1, 0, <<>>)
    ELSE IF WrongFonts(para) # {}
    THEN LET fonts_str == JoinComma(IterationOrder(WrongFonts(para), trace.hash_seed))
         IN  Outcome(1, 0, <<Issue(ErrorCategory.FONT,
                                   "Yanlis yazi tipi: " \o fonts_str,
                                   config.font_name, fonts_str)>>)
    ELSE Outcome(1, 1, <<>>)

\* ThesisChecker._check_size
WrongSizes(para, expected_pt) ==
    { sz \in { get_effective_font_size(document, para, para.runs[k]) :
                  k \in NonBlankRuns(para) } :
        sz # 0 /\ Abs(sz - expected_pt) > config.font_size_tolerance_pt }

check_size(para, expected_pt, context) ==
    IF ~self.resolver THEN Outcome(1, 0, <<>>)
    ELSE IF WrongSizes(para, expected_pt) # {}
    THEN LET sorted == SortedSeq(WrongSizes(para, expected_pt))
             sizes_str == JoinComma([k \in DOMAIN sorted |->
                                        FmtHalfPoints(sorted[k]) \o "pt"])
         IN  Outcome(1, 0, <<Issue(ErrorCategory.FONT_SIZE,
                 context \o " " \o sizes_str \o " (olmasi gereken: "
                     \o ToString(expected_pt \div 2) \o "pt)",
                 ToString(expected_pt \div 2) \o "pt", sizes_str)>>)
    ELSE Outcome(1, 1, <<>>)

\* WD_ALIGN_PARAGRAPH: LEFT 0, CENTER 1, RIGHT 2, JUSTIFY 3.
AlignmentName(a) ==
    CASE a = 0 -> "Sola yasli" [] a = 1 -> "Ortali" [] a = 2 -> "Saga yasli"
      [] a = 3 -> "Iki yana yasli" [] OTHER -> ToString(a)

\* ThesisChecker._check_alignment
check_alignment(para, expected, message) ==
    LET actual == para.pf["alignment"]
    IN  IF actual = None THEN Outcome(1, 1, <<>>)
        ELSE IF Val(actual) # expected
        THEN Outcome(1, 0, <<Issue(ErrorCategory.PARAGRAPH, message,
                                   AlignmentName(expected),
                                   AlignmentName(Val(actual)))>>)
        ELSE Outcome(1, 1, <<>>)

\* ThesisChecker._check_line_spacing
check_line_spacing(para) ==
    LET text == ParaText(para)
        actual == get_effective_line_spacing(document, para)
        expected == config.line_spacing_body
    IN  IF ~self.resolver THEN Outcome(1, 0, <<>>)
        ELSE IF is_dialogue_or_transcript(text) \/ is_source_citation(text)
                \/ is_list_item(para, text)
        THEN Outcome(1, 1, <<>>)
        ELSE IF expected = 150 /\ 125 <= actual /\ actual <= 165
        THEN Outcome(1, 1, <<>>)
        ELSE IF expected = 100 /\ 90 <= actual /\ actual <= 115
        THEN Outcome(1, 1, <<>>)
        ELSE IF Abs(actual - expected) > 15
        THEN Outcome(1, 0, <<Issue(ErrorCategory.LINE_SPACING,
                 "Satir araligi " \o FmtTenths(RoundDiv(actual, 10))
                     \o " (olmasi gereken: " \o FmtTenths(expected \div 10) \o ")",
                 FmtTenths(expected \div 10), FmtTenths(RoundDiv(actual, 10)))>>)
        ELSE Outcome(1, 1, <<>>)

\* ThesisChecker._check_paragraph_indent (tolerance 0.2 cm)
check_paragraph_indent(para) ==
    LET first_line == get_effective_paragraph_attribute(document, para, "first_line_indent")
        expected_cm == config.paragraph_first_line_indent
        actual_cm == IF first_line = None THEN 0 ELSE Val(first_line)
    IN  IF ~self.resolver THEN Outcome(1, 0, <<>>)
        ELSE IF Abs(actual_cm - expected_cm) > 72000
        THEN Outcome(1, 0, <<Issue(ErrorCategory.PARAGRAPH,
                 "Paragraf girintisi " \o FmtCm2(actual_cm)
                     \o "cm (olmasi gereken: " \o FmtCm2(expected_cm) \o "cm)",
                 FmtCm2(expected_cm) \o "cm", FmtCm2(actual_cm) \o "cm")>>)
        ELSE Outcome(1, 1, <<>>)

\* ThesisChecker._check_paragraph_spacing (tolerance 1.1 pt).  A document
\* default (a bare int, without .pt) counts as 0.
LengthOrZero(v, from_direct_or_style) ==
    IF v = None \/ ~from_direct_or_style THEN 0 ELSE Val(v)

HasLength(para, attr_name) ==
    \/ para.pf[attr_name] # None
    \/ ChainValue(document.styles, para.style, "paragraph_attribute", attr_name) # None

check_paragraph_spacing(para) ==
    LET before == LengthOrZero(
                      get_effective_paragraph_attribute(document, para, "space_before"),
                      HasLength(para, "space_before"))
        after == LengthOrZero(
                      get_effective_paragraph_attribute(document, para, "space_after"),
                      HasLength(para, "space_after"))
        found == ToString(IntPt(before)) \o "nk-" \o ToString(IntPt(after)) \o "nk"
        expected == ToString(IntPt(config.paragraph_spacing_before)) \o "nk-"
                      \o ToString(IntPt(config.paragraph_spacing_after)) \o "nk"
    IN  IF ~self.resolver THEN Outcome(1, 0, <<>>)
        ELSE IF \/ Abs(before - config.paragraph_spacing_before) > 13970
                \/ Abs(after - config.paragraph_spacing_after) > 13970
        THEN Outcome(1, 0, <<Issue(ErrorCategory.PARAGRAPH,
                 "Paragraf araligi " \o found \o " (olmasi gereken: " \o expected \o ")",
                 expected, found)>>)
        ELSE Outcome(1, 1, <<>>)

\* ThesisChecker._check_normal_paragraph_format
check_normal_paragraph_format(para) ==
    AndThen(check_size(para, config.font_size_body, "Metin"),
    AndThen(check_alignment(para, 3, "Metin iki yana yasli olmali"),
    AndThen(check_line_spacing(para),
    AndThen(check_paragraph_indent(para),
            check_paragraph_spacing(para)))))

\* ThesisChecker._is_block_quote: both resolved indents above 1.0 cm.
is_block_quote(para) ==
    LET left == get_effective_paragraph_attribute(document, para, "left_indent")
        right == get_effective_paragraph_attribute(document, para, "right_indent")
    IN  /\ self.resolver
        /\ OrElse(left, 0) > EMU_PER_CM
        /\ OrElse(right, 0) > EMU_PER_CM

AllItalic(para) == \A k \in NonBlankRuns(para) : para.runs[k].italic = Some(TRUE)

\* ThesisChecker._check_block_quote_format
check_block_quote_format(para) ==
    LET actual_ls == IF self.resolver THEN get_effective_line_spacing(document, para)
                     ELSE 100
    IN  AndThen(check_size(para, config.font_size_block_quote, "Blok alinti"),
        AndThen(IF ~AllItalic(para)
                THEN Outcome(1, 0, <<Issue(ErrorCategory.PARAGRAPH,
                         "Blok alinti italik olmalidir", "Italik", "Normal")>>)
                ELSE Outcome(1, 1, <<>>),
        AndThen(IF Abs(actual_ls - 100) > 15
                THEN Outcome(1, 0, <<Issue(ErrorCategory.PARAGRAPH,
                         "Blok alinti satir araligi 1.0 (tek) olmali", "1.0",
                         FmtTenths(RoundDiv(actual_ls, 10)))>>)
                ELSE Outcome(1, 1, <<>>),
                check_alignment(para, 3, "Blok alinti iki yana yasli olmali"))))

\* ThesisChecker._check_epigraph_format
check_epigraph_format(para) ==
    AndThen(check_size(para, 22, "Epigraf"),
            IF ~AllItalic(para)
            THEN Outcome(1, 0, <<Issue(ErrorCategory.PARAGRAPH,
                     "Epigraf italik olmali", "Italik", "")>>)
            ELSE Outcome(1, 1, <<>>))

\* utils.is_epigraph: right-aligned paragraphs.
is_epigraph(para) == para.pf["alignment"] = Some(2)

\* ThesisChecker._check_caption_format
check_caption_format(para, caption_type) ==
    AndThen(check_font(para),
            check_size(para,
                       IF caption_type = "Tablo" THEN config.font_size_table_caption
                       ELSE config.font_size_figure_caption,
                       caption_type \o " basligi"))

(***************************************************************************)
(* Heading and caption rules.                                              *)
(***************************************************************************)
\* ThesisChecker._is_paragraph_bold: [value, raised].  With a resolver it
\* first calls self.resolver.get_effective_font_bold(para) and, per run,
\* self.resolver.is_run_bold(run, para); a call of a method the class does
\* not define raises AttributeError.
is_paragraph_bold(para) ==
    IF ~self.resolver THEN [value |-> FALSE, raised |-> FALSE]
    ELSE IF "get_effective_font_bold" \notin StyleResolverMethods
    THEN [value |-> FALSE, raised |-> TRUE]
    ELSE IF NonBlankRuns(para) # {} /\ "is_run_bold" \notin StyleResolverMethods
    THEN [value |-> FALSE, raised |-> TRUE]
    ELSE [value |-> FALSE, raised |-> FALSE]

\* The "Koyu kontrolu" step of the two heading rules: total_checks += 1,
\* then the call of _is_paragraph_bold.
check_bold(para, message) ==
    LET bold == is_paragraph_bold(para)
    IN  IF bold.raised THEN Raise(1, 0, <<>>)
        ELSE IF ~bold.value
        THEN Outcome(1, 0, <<Issue(ErrorCategory.HEADING, message, "Koyu", "Normal")>>)
        ELSE Outcome(1, 1, <<>>)

\* A text as one string.
RECURSIVE JoinWords(_)
JoinWords(text) ==
    IF text = <<>> THEN ""
    ELSE IF Len(text) = 1 THEN text[1]
    ELSE text[1] \o " " \o JoinWords(Tail(text))

\* text[:n] of a text, as the words that fit (used for `found` fields).
RECURSIVE Prefix(_, _)
Prefix(text, n) ==
    IF text = <<>> \/ Len(Head(text)) > n THEN ""
    ELSE LET rest == Prefix(Tail(text), n - Len(Head(text)) - 1)
         IN  IF rest = "" THEN Head(text) ELSE Head(text) \o " " \o rest

\* ThesisChecker._check_chapter_heading_format, without its assignment to
\* last_chapter_para_idx (see marks_chapter_title).
check_chapter_heading_format(para, text) ==
    AndThen(check_font(para),
    AndThen(check_size(para, config.font_size_chapter_heading, "Bolum basligi"),
    AndThen(check_bold(para, "Bolum basligi koyu olmali"),
    AndThen(IF ~is_uppercase_text(text)
            THEN Outcome(1, 0, <<Issue(ErrorCategory.HEADING,
                     "Bolum basligi tamami buyuk harf olmali", "BUYUK HARF",
                     Prefix(text, 30))>>)
            ELSE Outcome(1, 1, <<>>),
            check_alignment(para, 1, "Bolum basligi ortali olmali")))))

\* The assignment self.last_chapter_para_idx = para_idx of
\* _check_chapter_heading_format; it follows the bold check.
marks_chapter_title(para, text, para_idx) ==
    /\ ~check_bold(para, "").raised
    /\ is_chapter_title_only(text)
    /\ para_idx # -1

\* ThesisChecker._check_subheading_format
check_subheading_format(para, text) ==
    AndThen(check_font(para),
    AndThen(check_size(para, config.font_size_subheading, "Alt baslik"),
    AndThen(check_bold(para, "Alt baslik koyu olmali"),
            IF ~is_title_case(text)
            THEN Outcome(1, 0, <<Issue(ErrorCategory.HEADING,
                     "Alt baslik her kelimesi buyuk harfle baslamali",
                     "Her Kelime Buyuk", Prefix(text, 30))>>)
            ELSE Outcome(0, 1, <<>>))))

\* f"{chapter}.{num}" of a caption, kept as the pair of its two digit
\* strings: item.split(".") of _check_table_figure_numbering gives them back.
CaptionKey(text) == Val(CaptionNumber(text[2]))

\* ThesisChecker._check_table_caption / _check_figure_caption: what they do
\* to the checker s.  The regular expression is the one of is_table_caption
\* (is_figure_caption).
check_table_caption(s, text, location) ==
    IF is_table_caption(text)
    THEN [s EXCEPT !.tables_found = Append(@, CaptionKey(text)),
                   !.passed_checks = @ + 1]
    ELSE [s EXCEPT !.total_checks = @ + 1,
                   !.errors = Append(@, FormatError(ErrorCategory.NUMBERING,
                        "Tablo numaralandirma formati yanlis", location,
                        "Tablo X.Y: Baslik", Prefix(text, 40)))]

check_figure_caption(s, text, location) ==
    IF is_figure_caption(text)
    THEN [s EXCEPT !.figures_found = Append(@, CaptionKey(text)),
                   !.passed_checks = @ + 1]
    ELSE [s EXCEPT !.total_checks = @ + 1,
                   !.errors = Append(@, FormatError(ErrorCategory.NUMBERING,
                        "Sekil numaralandirma formati yanlis", location,
                        "Sekil X.Y: Baslik", Prefix(text, 40)))]

\* ThesisChecker._check_chapter_start_rules: space before of 100 pt, or four
\* empty paragraphs above, or space before of 80 pt.
EmptyAbove(para_idx) ==
    LET blank(j) == para_idx - j >= 0
                    /\ ParaText(document.paragraphs[para_idx - j + 1]) = <<>>
    IN  Cardinality({j \in 1 .. 5 : \A k \in 1 .. j : blank(k)})

check_chapter_start_rules(para_idx) ==
    LET sb == OrElse(document.paragraphs[para_idx + 1].pf["space_before"], 0)
        empty_count == EmptyAbove(para_idx)
    IN  IF sb < 100 * EMU_PER_PT /\ empty_count < 4 /\ sb < 80 * EMU_PER_PT
        THEN Outcome(1, 0, <<[category |-> ErrorCategory.MARGIN,
                 message |-> "Bolum basligi oncesi 4 satir bosluk veya 7cm ust bosluk kurali ihlali",
                 expected |-> "7cm ust bosluk / 4 satir bos",
                 found |-> ToString(empty_count) \o " bos satir, "
                           \o ToString(IntPt(sb)) \o "nk bosluk"]>>)
        ELSE Outcome(1, 1, <<>>)

(***************************************************************************)
(* The resolver on its own: any style table over NumStyles styles, any     *)
(* base_style links (cycles included), one target paragraph with one run.  *)
(***************************************************************************)
StyleIds == 1 .. NumStyles

StyleFontOf(s) == IF s % 2 = 1 THEN "Arial" ELSE "Verdana"

\* A style either defines nothing or defines every attribute.
EmptyStyle(base) ==
    [font_name |-> None, font_size |-> None, base_style |-> base,
     pf |-> NoParagraphFormat]

FullStyle(s, base) ==
    [font_name |-> Some(StyleFontOf(s)), font_size |-> Some(24 + 4 * s),
     base_style |-> base,
     pf |-> [a \in ParagraphAttributes |->
               CASE a = "alignment" -> Some(s % 4)
                 [] a = "line_spacing_rule" -> Some(4)
                 [] a = "line_spacing" -> Some(<<"length", 190500 * s>>)
                 [] OTHER -> Some(EMU_PER_CM * s)]]

StyleTables ==
    { t \in [StyleIds -> [defines : BOOLEAN, base : {None} \cup {Some(b) : b \in StyleIds}]] : TRUE }

MakeStyles(t) ==
    [s \in StyleIds |-> IF t[s].defines THEN FullStyle(s, t[s].base)
                        ELSE EmptyStyle(t[s].base)]

TargetRuns ==
    { Run(<<"metin">>),
      [Run(<<"metin">>) EXCEPT !.name = Some("Times New Roman")],
      [Run(<<"metin">>) EXCEPT !.theme = Some("minorHAnsi"), !.size = Some(20)] }

TargetFormats ==
    { NoParagraphFormat,
      [a \in ParagraphAttributes |->
          CASE a = "alignment" -> Some(3)
            [] a = "line_spacing_rule" -> Some(5)
            [] a = "line_spacing" -> Some(<<"float", 150>>)
            [] OTHER -> Some(0)] }

TargetParagraphs ==
    { [Paragraph(<<r>>, st) EXCEPT !.pf = f] :
        r \in TargetRuns, f \in TargetFormats,
        st \in {None} \cup {Some(s) : s \in StyleIds} }

TargetDocDefaults ==
    { NoDocDefaults,
      [font_name |-> Some("Calibri"), font_size |-> Some(22),
       pf |-> [NoParagraphFormat EXCEPT !["space_after"] = Some(160),
                                        !["line_spacing"] = Some(<<"int", 259>>),
                                        !["line_spacing_rule"] = Some(5)]] }

FreshChecker ==
    [errors |-> <<>>, sections_found |-> {}, abstract_text |-> <<>>,
     cover_ended_at |-> 0, total_checks |-> 0, passed_checks |-> 0,
     toc_headings |-> <<>>, tables_found |-> <<>>, figures_found |-> <<>>,
     in_references |-> FALSE, headings_found |-> <<>>,
     in_english_abstract |-> FALSE, last_chapter_para_idx |-> -1,
     resolver |-> FALSE, config |-> DEFAULT_CONFIG]

\* What the model remembers besides the program's state: the string hash seed
\* of the interpreter process, the paragraphs that were given the
\* normal-paragraph rules, the (paragraph, rule family) pairs of the rule
\* families that were evaluated, which analyze call of the process's caller this
\* is, and what the call before it analysed and returned.
NoTrace ==
    [hash_seed |-> 0, normal |-> {}, classified |-> {}, families |-> {},
     run |-> 1,
     first |-> [document |-> None, report |-> None, same_process |-> FALSE]]

NoLoop == [i |-> 0, in_toc_list |-> FALSE, in_front_matter |-> TRUE]

InitResolver ==
    /\ \E t \in StyleTables, p \in TargetParagraphs, d \in TargetDocDefaults :
          document = MakeDocument(<<p>>, MakeStyles(t), d)
    /\ self = [FreshChecker EXCEPT !.resolver = TRUE]
    /\ pc = "resolver"
    /\ loop = NoLoop
    /\ report = None
    /\ lookup = IdleLookup
    /\ trace = NoTrace

NextResolver ==
    \/ Call_get_effective_font_name(1)
    \/ Call_get_effective_font_size(1)
    \/ \E a \in {"first_line_indent", "space_after"} :
          Call_get_effective_paragraph_attribute(a)
    \/ Call_get_effective_line_spacing
    \/ LineSpacingSecondLookup
    \/ LineSpacingReturn
    \/ WalkStyleChain

SpecResolver == InitResolver /\ [][NextResolver]_vars

\* The interpreter keeps executing a loop that has not returned.
FairSpecResolver == SpecResolver /\ WF_vars(NextResolver)

(***************************************************************************)
(* The passes of analyze before the rules run.                             *)
(***************************************************************************)
Texts(doc) == [k \in DOMAIN doc.paragraphs |-> ParaText(doc.paragraphs[k])]

\* ThesisChecker._find_cover_end: the new value of cover_ended_at (indices
\* are Python's, from 0).
find_cover_end(s, doc) ==
    LET texts == Texts(doc)
        marks(i) == ContainsAny(UpperText(texts[i + 1]),
                        { <<"BILIMSEL", "ETIGE">>, <<"ONSOZ">>, <<"ON", "SOZ">>,
                          <<"OZET">> })
        stops == {i \in 0 .. Len(texts) - 1 : marks(i) \/ i > 50}
    IN  IF stops = {} THEN s.cover_ended_at
        ELSE LET i == CHOOSE x \in stops : \A y \in stops : x <= y
             IN  IF marks(i) THEN i ELSE 20

\* The numbering token of a table-of-contents line and the number of dots in
\* it:  ^(\d+(?:\.\d+)*\.?)\s+
TocNumber(w) ==
    IF HeadingNumberLevel(w) # None THEN HeadingNumberLevel(w)
    ELSE IF w = "12" THEN Some(0)
    ELSE None

\* The title group of the line: (.+?)(?:\s+\.+\s*\d+)?$
TocTitle(text) ==
    LET rest == Tail(text)
        n == Len(rest)
    IN  IF n >= 3 /\ rest[n - 1] = "...." /\ rest[n] = "12"
        THEN SubSeq(rest, 1, n - 2)
        ELSE rest

\* dict[key] = value on a dict kept as the sequence of its items.
DictSet(d, key, value) ==
    IF \E k \in DOMAIN d : d[k].key = key
    THEN [k \in DOMAIN d |-> IF d[k].key = key THEN [key |-> key, value |-> value]
                             ELSE d[k]]
    ELSE Append(d, [key |-> key, value |-> value])

\* ThesisChecker._parse_toc, from paragraph k on.
RECURSIVE parse_toc(_, _, _, _)
parse_toc(texts, k, in_toc, toc) ==
    IF k > Len(texts) THEN toc
    ELSE LET text == texts[k]
             text_upper == UpperText(text)
         IN  IF Contains(text_upper, <<"ICINDEKILER">>) /\ TextLen(text) < 30
             THEN parse_toc(texts, k + 1, TRUE, toc)
             ELSE IF ~in_toc THEN parse_toc(texts, k + 1, in_toc, toc)
             ELSE IF /\ ContainsAny(text_upper, { <<"TABLOLAR", "LISTESI">>,
                                                  <<"SEKILLER", "LISTESI">>,
                                                  <<"GIRIS">> })
                     /\ TextLen(text) < 30
             THEN toc
             ELSE IF Len(text) >= 2 /\ TocNumber(text[1]) # None
             THEN parse_toc(texts, k + 1, in_toc,
                            DictSet(toc, UpperText(TocTitle(text)),
                                    Val(TocNumber(text[1]))))
             ELSE parse_toc(texts, k + 1, in_toc, toc)

\* The `required` table of _find_sections.
RequiredSections ==
    { <<"OZET", "Ozet">>, <<"ABSTRACT", "Abstract">>, <<"GIRIS", "Giris">>,
      <<"SONUC", "Sonuc">>, <<"KAYNAKCA", "Kaynakca">>,
      <<"ICINDEKILER", "Icindekiler">> }

is_section_heading(text) ==
    \E r \in RequiredSections :
        Contains(UpperText(text), <<r[1]>>) /\ TextLen(text) < 50

\* ThesisChecker._find_sections: the names added to sections_found.
SectionsFound(doc) ==
    { r[2] : r \in { q \in RequiredSections :
                       \E k \in DOMAIN doc.paragraphs :
                          /\ Contains(UpperText(Texts(doc)[k]), <<q[1]>>)
                          /\ TextLen(Texts(doc)[k]) < 50 } }

\* ThesisChecker._find_sections: abstract_paragraphs at the end of the loop.
\* The loop body is
\*     if is_section_heading:
\*         continue
\*         <the statements that stop the abstract or append the text>
\* so a section heading leaves the iteration at `continue`, and any other
\* paragraph has no statement left to execute: nothing is ever appended.
RECURSIVE abstract_paragraphs(_, _)
abstract_paragraphs(texts, k) ==
    IF k > Len(texts) THEN <<>>
    ELSE IF is_section_heading(texts[k]) THEN abstract_paragraphs(texts, k + 1)
    ELSE abstract_paragraphs(texts, k + 1)

\* " ".join(list of texts)
RECURSIVE JoinTexts(_)
JoinTexts(list) == IF list = <<>> THEN <<>> ELSE Head(list) \o JoinTexts(Tail(list))

find_sections(s, doc) ==
    LET found == s.sections_found \cup SectionsFound(doc)
    IN  [s EXCEPT !.sections_found = found,
                  !.abstract_text = JoinTexts(abstract_paragraphs(Texts(doc), 1)),
                  !.in_english_abstract = IF "Abstract" \in found THEN TRUE ELSE @]

\* utils.count_words
count_words(text) == Len(text)

\* ThesisChecker._check_abstract
check_abstract(s) ==
    LET word_count == count_words(s.abstract_text)
        wc == ToString(word_count)
    IN  IF s.abstract_text = <<>> THEN s
        ELSE IF word_count < config.abstract_min_words
        THEN [s EXCEPT !.total_checks = @ + 1,
                !.errors = Append(@, FormatError(ErrorCategory.ABSTRACT,
                    "Ozet cok kisa: " \o wc \o " kelime (minimum "
                        \o ToString(config.abstract_min_words) \o ")",
                    "Ozet",
                    "En az " \o ToString(config.abstract_min_words) \o " kelime",
                    wc \o " kelime"))]
        ELSE IF word_count > config.abstract_max_words
        THEN [s EXCEPT !.total_checks = @ + 1,
                !.errors = Append(@, FormatError(ErrorCategory.ABSTRACT,
                    "Ozet cok uzun: " \o wc \o " kelime (maksimum "
                        \o ToString(config.abstract_max_words) \o ")",
                    "Ozet",
                    "En fazla " \o ToString(config.abstract_max_words) \o " kelime",
                    wc \o " kelime"))]
        ELSE [s EXCEPT !.total_checks = @ + 1, !.passed_checks = @ + 1]

\* ThesisChecker._check_margins: one margin of the first section.
MarginNames == <<"Ust", "Alt", "Sol", "Sag">>

SectionMargins(section) ==
    << <<section.top_margin, config.margin_top>>,
       <<section.bottom_margin, config.margin_bottom>>,
       <<section.left_margin, config.margin_left>>,
       <<section.right_margin, config.margin_right>> >>

\* `if actual and abs(actual - expected) > tolerance`
margin_fails(margin, expected) ==
    /\ margin # None
    /\ Val(margin) # 0
    /\ Abs(Val(margin) - expected) > config.margin_tolerance_cm

RECURSIVE JoinSemicolon(_)
JoinSemicolon(seq) ==
    IF seq = <<>> THEN ""
    ELSE IF Len(seq) = 1 THEN seq[1]
    ELSE seq[1] \o "; " \o JoinSemicolon(Tail(seq))

check_margins(s, doc) ==
    IF doc.sections = <<>> THEN s
    ELSE LET margins == SectionMargins(doc.sections[1])
             fails(k) == margin_fails(margins[k][1], margins[k][2])
             failed == SelectSeq(<<1, 2, 3, 4>>, fails)
             issues == [j \in DOMAIN failed |->
                          MarginNames[failed[j]] \o ": "
                          \o FmtTenths(RoundDiv(Val(margins[failed[j]][1]) * 10, EMU_PER_CM))
                          \o " cm (olmasi gereken: "
                          \o FmtTenths((margins[failed[j]][2] * 10) \div EMU_PER_CM)
                          \o " cm)"]
         IN  [s EXCEPT !.total_checks = @ + 4,
                       !.passed_checks = @ + 4 - Len(failed),
                       !.errors = IF failed = <<>> THEN @
                                  ELSE Append(@, FormatError(ErrorCategory.MARGIN,
                                       JoinSemicolon(issues), "Sayfa Duzeni",
                                       FmtTenths((config.margin_top * 10) \div EMU_PER_CM)
                                           \o " cm",
                                       "Farkli degerler"))]

(***************************************************************************)
(* One iteration of the loop of _check_paragraphs.                         *)
(***************************************************************************)
\* What an outcome does to the counters, and to the counters and the error
\* list (an outcome that raised appended nothing: its issues were locals).
Count(s, r) ==
    [s EXCEPT !.total_checks = @ + r.t, !.passed_checks = @ + r.p]

Record(s, r, location) ==
    [Count(s, r) EXCEPT !.errors = @ \o AtLocation(r.issues, location)]

Location(i) == "Paragraf " \o ToString(i + 1)

\* str.isdigit() on a text.
IsDigits(text) == text \in { <<"12">>, <<"1">>, <<"2">> }

\* is_ch of _check_paragraphs
is_ch(s, text, i) ==
    \/ is_chapter_heading(text)
    \/ s.last_chapter_para_idx # -1 /\ i = s.last_chapter_para_idx + 1

\* `if is_cap or is_ch or is_num_h:` without is_ch.
NoChapterBranch(is_cap, ch, is_num_h) == is_cap \/ is_num_h

\* `if is_cap or is_ch or is_num_h:`
IsHeadingOrCaption(is_cap, ch, is_num_h) == is_cap \/ ch \/ is_num_h

\* The issues a list item is forgiven: those of the categories PARAGRAPH and
\* LINE_SPACING whose message contains "girinti" or "aralik", i.e. the ones
\* of the indent, paragraph spacing and line spacing rules.
ForgivenForLists(para) ==
    LET rs == check_line_spacing(para).issues \o check_paragraph_indent(para).issues
                \o check_paragraph_spacing(para).issues
    IN  {rs[k] : k \in DOMAIN rs}

ListFiltered(para, issues) ==
    LET keep(iss) == iss \notin ForgivenForLists(para)
    IN  SelectSeq(issues, keep)

\* Lines 384-417: the heading and caption branch.  [self, raised]
heading_rules(s, para, text, i) ==
    LET location == Location(i)
        appended == [s EXCEPT !.headings_found = Append(@, UpperText(text))]
        start_rules(s1) ==
            IF is_chapter_heading(text)
            THEN Record(s1, check_chapter_start_rules(i), location)
            ELSE s1
        finish(s1, r) ==
            IF r.raised THEN [self |-> Count(s1, r), raised |-> TRUE]
            ELSE [self |-> start_rules(Record(s1, r, location)), raised |-> FALSE]
    IN  IF is_table_caption(text)
        THEN finish(check_table_caption(s, text, location),
                    check_caption_format(para, "Tablo"))
        ELSE IF is_figure_caption(text)
        THEN finish(check_figure_caption(s, text, location),
                    check_caption_format(para, "Sekil"))
        ELSE IF is_ch(s, text, i)
        THEN finish(IF marks_chapter_title(para, text, i)
                    THEN [appended EXCEPT !.last_chapter_para_idx = i]
                    ELSE appended,
                    check_chapter_heading_format(para, text))
        ELSE finish(appended, check_subheading_format(para, text))

\* `if not self.in_references:` taken whatever in_references is.
AlsoInReferences(s) == TRUE

\* `if not self.in_references:` (line 431)
outside_references(s) == ~s.in_references

\* Lines 419-470: block quote, normal paragraph and epigraph rules.
body_rules(s, para, text, i) ==
    LET location == Location(i)
        none == Outcome(0, 0, <<>>)
        quote == IF is_block_quote(para) THEN check_block_quote_format(para) ELSE none
        normal == IF outside_references(s) THEN check_normal_paragraph_format(para)
                  ELSE none
        kept == IF is_list_item(para, text) THEN ListFiltered(para, normal.issues)
                ELSE normal.issues
        epigraph == IF is_epigraph(para) THEN check_epigraph_format(para) ELSE none
    IN  Record(Record(Record(s, quote, location),
                      [normal EXCEPT !.issues = kept], location),
               epigraph, location)

\* The iteration for paragraph i (from 0) in checker state s and loop
\* locals lp: [self, in_toc_list, in_front_matter, normal, raised, classified,
\* families], where normal says whether _check_normal_paragraph_format was
\* called, classified whether the paragraph reached line 380, and families
\* names the rule families that were evaluated for it.
paragraph_step(s, lp, i) ==
    LET paragraph == document.paragraphs[i + 1]
        text == ParaText(paragraph)
        text_upper == UpperText(text)
        result(s1, toc, front, normal, raised) ==
            [self |-> s1, in_toc_list |-> toc, in_front_matter |-> front,
             normal |-> normal, raised |-> raised, classified |-> FALSE,
             families |-> {}]
        names_list == ContainsAny(text_upper, { <<"TABLOLAR", "LISTESI">>,
                                                <<"SEKILLER", "LISTESI">> })
        in_list == lp.in_toc_list \/ names_list
        leaves_list == ContainsAny(text_upper, { <<"GIRIS">>, <<"BOLUM">> })
        in_toc_list == in_list /\ ~leaves_list
        is_skipped_for_format ==
            \/ is_cover_or_skip(i, text)
            \/ names_list
            \/ in_list /\ ~leaves_list
        fonts == IF TextLen(text) > 3 THEN Record(s, check_font(paragraph), Location(i))
                 ELSE s
        in_front_matter ==
            lp.in_front_matter /\ ~(Contains(text_upper, <<"GIRIS">>) /\ TextLen(text) < 20)
        alignment == paragraph.pf["alignment"]
        is_cap == is_table_caption(text) \/ is_figure_caption(text)
        is_num_h == is_numbered_heading(text)
        heading_family ==
            IF is_table_caption(text) THEN "table_caption"
            ELSE IF is_figure_caption(text) THEN "figure_caption"
            ELSE IF is_ch(fonts, text, i) THEN "chapter_heading"
            ELSE "numbered_subheading"
        body_families ==
            (IF is_block_quote(paragraph) THEN {"block_quote"} ELSE {})
            \cup (IF outside_references(fonts) THEN {"normal"} ELSE {})
            \cup (IF is_epigraph(paragraph) THEN {"epigraph"} ELSE {})
    IN  IF text = <<>> \/ (TextLen(text) < 2 /\ ~IsDigits(text))
        THEN result(s, lp.in_toc_list, lp.in_front_matter, FALSE, FALSE)
        ELSE IF is_skipped_for_format
        THEN result(fonts, in_toc_list, lp.in_front_matter, FALSE, FALSE)
        ELSE IF in_front_matter
                /\ (alignment \in {Some(1), Some(2)} \/ TextLen(text) < 150)
        THEN result(fonts, in_toc_list, in_front_matter, FALSE, FALSE)
        ELSE IF Contains(text_upper, <<"KAYNAKCA">>) /\ TextLen(text) < 20
        THEN result([fonts EXCEPT !.in_references = TRUE], in_toc_list,
                    in_front_matter, FALSE, FALSE)
        ELSE IF is_dialogue_or_transcript(text) \/ is_source_citation(text)
        THEN result(fonts, in_toc_list, in_front_matter, FALSE, FALSE)
        ELSE IF IsHeadingOrCaption(is_cap, is_ch(fonts, text, i), is_num_h)
        THEN LET h == heading_rules(fonts, paragraph, text, i)
             IN  [result(h.self, in_toc_list, in_front_matter, FALSE, h.raised)
                     EXCEPT !.classified = TRUE, !.families = {heading_family}]
        ELSE [result(body_rules(fonts, paragraph, text, i), in_toc_list,
                     in_front_matter, outside_references(fonts), FALSE)
                 EXCEPT !.classified = TRUE, !.families = body_families]

(***************************************************************************)
(* The passes of analyze after the paragraph loop.                         *)
(***************************************************************************)
\* int(digits)
IntOf(digits) ==
    CASE digits = "1" -> 1 [] digits = "2" -> 2 [] digits = "3" -> 3
      [] digits = "4" -> 4 [] OTHER -> 0

\* sorted(nums) left in registry order.
KeepOrder(seq) == seq

\* sorted(list of integers)
RECURSIVE SortInts(_)
SortInts(seq) ==
    IF seq = <<>> THEN <<>>
    ELSE LET k == CHOOSE i \in DOMAIN seq : \A j \in DOMAIN seq : seq[i] <= seq[j]
         IN  <<seq[k]>> \o SortInts(SubSeq(seq, 1, k - 1) \o SubSeq(seq, k + 1, Len(seq)))

\* The keys of by_chapter in insertion order.
RECURSIVE ChaptersOf(_)
ChaptersOf(items) ==
    IF items = <<>> THEN <<>>
    ELSE LET rest == ChaptersOf(SubSeq(items, 1, Len(items) - 1))
             c == items[Len(items)][1]
         IN  IF \E k \in DOMAIN rest : rest[k] = c THEN rest ELSE Append(rest, c)

NumsOf(items, chapter) ==
    LET mine == SelectSeq(items, LAMBDA item : item[1] = chapter)
    IN  [k \in DOMAIN mine |-> IntOf(mine[k][2])]

\* _check_table_figure_numbering comparing nums, in the order of the
\* registry, with range(1, len(nums) + 1).
RegistryOrderErrors(item_type, items) ==
    LET chapters == ChaptersOf(items)
        broken == SelectSeq(chapters,
                      LAMBDA c : NumsOf(items, c)
                                   # [k \in 1 .. Len(NumsOf(items, c)) |-> k])
    IN  [j \in DOMAIN broken |->
            LET sorted == SortInts(NumsOf(items, broken[j]))
            IN  FormatError(ErrorCategory.NUMBERING,
                    "Bolum " \o broken[j] \o "'de " \o item_type
                        \o " numaralandirmasi sirali degil",
                    item_type \o " Numaralandirma",
                    "1, 2, 3, ...",
                    JoinComma([k \in DOMAIN sorted |-> ToString(sorted[k])]))]

\* The errors _check_table_figure_numbering appends for one registry.
numbering_errors(item_type, items) ==
    LET chapters == ChaptersOf(items)
        broken == SelectSeq(chapters,
                      LAMBDA c : SortInts(NumsOf(items, c))
                                   # [k \in 1 .. Len(NumsOf(items, c)) |-> k])
    IN  [j \in DOMAIN broken |->
            LET sorted == SortInts(NumsOf(items, broken[j]))
            IN  FormatError(ErrorCategory.NUMBERING,
                    "Bolum " \o broken[j] \o "'de " \o item_type
                        \o " numaralandirmasi sirali degil",
                    item_type \o " Numaralandirma",
                    "1, 2, 3, ...",
                    JoinComma([k \in DOMAIN sorted |-> ToString(sorted[k])]))]

\* ThesisChecker._check_table_figure_numbering
check_table_figure_numbering(s) ==
    [s EXCEPT !.errors = @ \o numbering_errors("Tablo", s.tables_found)
                           \o numbering_errors("Sekil", s.figures_found)]

\* re.sub(r'[\.\s]', '', h) of a heading: its words without dots, the words
\* made of dots dropped.
StripDots(w) ==
    CASE w = "1.1." -> "11" [] w = "1.2." -> "12" [] w = "2.3." -> "23"
      [] w = "1.1.1." -> "111" [] w = "2.3.1." -> "231"
      [] w = "1." -> "1" [] w = "2." -> "2" [] w = "3." -> "3"
      [] w = "I." -> "I" [] OTHER -> w

Clean(h) ==
    LET words == SelectSeq(h, LAMBDA w : w # "....")
    IN  [k \in DOMAIN words |-> StripDots(words[k])]

\* `a in b` on cleaned headings.
CleanIn(a, b) == Contains(b, a)

\* First loop of _check_toc_consistency: one check per TOC heading.
toc_in_text(s) ==
    LET clean_text_set == {Clean(s.headings_found[k]) : k \in DOMAIN s.headings_found}
        found(toc_h) ==
            \/ Clean(toc_h) \in clean_text_set
            \/ \E ct \in clean_text_set :
                  CleanIn(Clean(toc_h), ct) \/ CleanIn(ct, Clean(toc_h))
        missing == SelectSeq(s.toc_headings, LAMBDA item : ~found(item.key))
    IN  [s EXCEPT !.total_checks = @ + Len(s.toc_headings),
                  !.passed_checks = @ + Len(s.toc_headings) - Len(missing),
                  !.errors = @ \o [k \in DOMAIN missing |->
                      FormatError(ErrorCategory.SECTION,
                          "Icindekiler'de yer alan baslik metinde bulunamadi: "
                              \o JoinWords(missing[k].key),
                          "Icindekiler", "Basligin metinde yer almasi",
                          "Eksik baslik")]]

\* Second loop of _check_toc_consistency, from heading k of headings_found
\* on: the headings from the first one that contains "GIRIS".
RECURSIVE text_in_toc(_, _, _)
text_in_toc(s, k, giris_found) ==
    IF k > Len(s.headings_found) THEN s
    ELSE LET text_h == s.headings_found[k]
             seen == giris_found \/ Contains(text_h, <<"GIRIS">>)
             clean_toc_set == {Clean(s.toc_headings[j].key) : j \in DOMAIN s.toc_headings}
             clean_text == Clean(text_h)
             found == \E ct \in clean_toc_set :
                         CleanIn(clean_text, ct) \/ CleanIn(ct, clean_text)
         IN  IF ~seen THEN text_in_toc(s, k + 1, seen)
             ELSE IF clean_text \in clean_toc_set
             THEN text_in_toc([s EXCEPT !.passed_checks = @ + 1], k + 1, seen)
             ELSE IF ~found
             THEN text_in_toc(
                     [s EXCEPT !.total_checks = @ + 1,
                        !.errors = Append(@,
                           FormatError(ErrorCategory.SECTION,
                               "Metindeki baslik Icindekiler'de bulunamadi: "
                                   \o JoinWords(text_h),
                               "Icindekiler", "Basligin Icindekiler'de yer almasi",
                               "Eksik Icindekiler kaydi"))],
                     k + 1, seen)
             ELSE text_in_toc([s EXCEPT !.total_checks = @ + 1,
                                        !.passed_checks = @ + 1], k + 1, seen)

\* ThesisChecker._check_toc_consistency
check_toc_consistency(s) ==
    IF s.toc_headings = <<>> THEN s
    ELSE text_in_toc(toc_in_text(s), 1, FALSE)

\* ThesisChecker._check_page_numbers, for section i (from 0).
page_number_errors(section, i) ==
    LET footer_dist == OrElse(section.footer_distance, 0)
        where == "Bolum " \o ToString(i + 1)
        distance ==
            IF 144000 <= footer_dist /\ footer_dist <= 900000
            THEN Outcome(1, 1, <<>>)
            ELSE Outcome(1, 0, <<FormatError(ErrorCategory.NUMBERING,
                     "Sayfa numarasi (footer) mesafesi " \o FmtCm2(footer_dist)
                         \o " cm (0.4 - 2.5 cm arasi kabul edilir)",
                     where \o " Alt Bilgi", "0.4 - 2.5 cm",
                     FmtCm2(footer_dist) \o " cm")>>)
        numbering_type == Outcome(1, 0, <<>>)
        p == section.footer_paragraphs[1]
        centred ==
            IF p.pf["alignment"] # Some(1)
            THEN Outcome(1, 0, <<FormatError(ErrorCategory.NUMBERING,
                     "Sayfa numarasi ortalanmis olmali",
                     where \o " Sayfa Numarasi", "Ortali", "Farkli hizalama")>>)
            ELSE Outcome(1, 1, <<>>)
        font == check_font(p)
        size == check_size(p, 20, "Sayfa Numarasi")
        font_error ==
            IF font.issues = <<>> THEN <<>>
            ELSE <<FormatError(ErrorCategory.FONT,
                       "Sayfa numarasi yazi tipi Times New Roman olmali",
                       where \o " Sayfa Numarasi", "Times New Roman", "")>>
        size_error ==
            IF size.issues = <<>> THEN <<>>
            ELSE <<FormatError(ErrorCategory.FONT_SIZE,
                       "Sayfa numarasi 10 punto olmali",
                       where \o " Sayfa Numarasi", "10 pt", "")>>
    IN  IF section.footer_paragraphs = <<>>
        THEN AndThen(distance, numbering_type)
        ELSE AndThen(distance,
             AndThen(numbering_type,
             AndThen(centred,
             AndThen([font EXCEPT !.issues = font_error],
                     [size EXCEPT !.issues = size_error]))))

RECURSIVE check_page_numbers(_, _, _)
check_page_numbers(s, doc, i) ==
    IF i >= Len(doc.sections) THEN s
    ELSE LET r == page_number_errors(doc.sections[i + 1], i)
         IN  check_page_numbers(
                 [Count(s, r) EXCEPT !.errors = @ \o r.issues], doc, i + 1)

\* ThesisChecker._check_tables: the tables of these documents have no
\* visible borders, so the loop over document.tables skips each of them
\* (`if not has_visible_borders(table) ...: continue`).
check_tables(s, doc) == s

\* ThesisChecker._check_references.
\*
\* Words that hold a year in parentheses, \(\d{4}\), and the start of an
\* entry that author_pattern matches ("Soyad, A.").
HasYear(text) == \E k \in DOMAIN text : text[k] \in {"(2021).", "(2021)"}

MatchesAuthorPattern(text) ==
    Len(text) >= 2 /\ text[1] \in {"Yilmaz,", "Kaya,"} /\ text[2] \in {"A.", "A.B."}

\* ":" in text and len(text.split(":")[0]) < 10
ColonWords == {"Kaynak:", "A:", "Arastirmaci:", "1.1:", "1.2:", "1.3:", "2.1:"}

HasShortColonPrefix(text) ==
    \E k \in DOMAIN text :
        /\ text[k] \in ColonWords
        /\ \A j \in 1 .. k - 1 : text[j] \notin ColonWords
        /\ TextLen(SubSeq(text, 1, k)) - 1 < 10

\* Lines 910-923: the paragraphs of the reference list that are not counted.
is_reference_noise(text) ==
    LET text_upper == UpperText(text)
        is_structural_header == text_upper = text /\ Len(text) < 5
    IN  \/ /\ ContainsAny(text_upper,
                          { <<"KISALTMALAR", "LISTESI">>, <<"OZ", "GECMIS">>,
                            <<"OZGECMIS">>, <<"EK">>, <<"EKLER">>, <<"ONSOZ">>,
                            <<"ON", "SOZ">> })
           /\ TextLen(text) < 40
        \/ is_structural_header
        \/ IsDigits(text)
        \/ Len(text) < 3
        \/ HasShortColonPrefix(text)

\* The loop of lines 898-925: the paragraphs counted as entries, in order.
RECURSIVE reference_entries(_, _, _)
reference_entries(doc, k, in_ref) ==
    IF k > Len(doc.paragraphs) THEN <<>>
    ELSE LET text == ParaText(doc.paragraphs[k])
         IN  IF Contains(UpperText(text), <<"KAYNAKCA">>) /\ TextLen(text) < 20
             THEN reference_entries(doc, k + 1, TRUE)
             ELSE IF ~in_ref \/ text = <<>>
             THEN reference_entries(doc, k + 1, in_ref)
             ELSE IF is_chapter_heading(text) THEN <<>>
             ELSE IF is_reference_noise(text)
             THEN reference_entries(doc, k + 1, in_ref)
             ELSE <<k>> \o reference_entries(doc, k + 1, in_ref)

\* Lines 928-938: the hanging indent of an entry, from the paragraph's own
\* first_line_indent; the expected magnitude is the literal 1.0 cm.
hanging_indent_issues(para) ==
    LET first_line_indent == para.pf["first_line_indent"]
        emu == Val(first_line_indent)
    IN  IF first_line_indent = None \/ emu = 0
        THEN <<"Asili girinti eksik (1 cm asili girinti olmali)">>
        ELSE IF 10 * emu >= -EMU_PER_CM
        THEN <<"Asili girinti yok (1 cm asili girinti olmali)">>
        ELSE IF 5 * Abs(Abs(emu) - EMU_PER_CM) > EMU_PER_CM
        THEN <<"Asili girinti " \o FmtTenths(RoundDiv(Abs(emu) * 10, EMU_PER_CM))
                 \o "cm (1 cm olmali)">>
        ELSE <<>>

\* Lines 940-966: italic part, year, author and spacing of an entry.
reference_format_issues(para, text) ==
    LET has_italic == \E k \in NonBlankRuns(para) : para.runs[k].italic = Some(TRUE)
        sb == OrElse(para.pf["space_before"], 0)
        sa == OrElse(para.pf["space_after"], 0)
    IN  (IF has_italic THEN <<>>
         ELSE <<"Italik kisim yok (dergi/kitap adi italik olmali)">>)
        \o (IF HasYear(text) THEN <<>> ELSE <<"Yil formati hatali (YYYY) olmali">>)
        \o (IF MatchesAuthorPattern(text) THEN <<>>
            ELSE <<"Yazar formati: Soyad, A. seklinde olmali">>)
        \o (IF Abs(sb - 3 * EMU_PER_PT) > EMU_PER_PT
               \/ Abs(sa - 3 * EMU_PER_PT) > EMU_PER_PT
            THEN <<"Kaynakca boslugu " \o ToString(IntPt(sb)) \o "nk-"
                     \o ToString(IntPt(sa)) \o "nk (3nk-3nk olmali)">>
            ELSE <<>>)

\* ref_errors: the messages of all entries, in the order recorded.
RECURSIVE ref_errors(_, _)
ref_errors(doc, entries) ==
    IF entries = <<>> THEN <<>>
    ELSE LET para == doc.paragraphs[Head(entries)]
         IN  hanging_indent_issues(para)
             \o reference_format_issues(para, ParaText(para))
             \o ref_errors(doc, Tail(entries))

\* error_types: the distinct messages in the order of first occurrence.
RECURSIVE error_types(_)
error_types(messages) ==
    IF messages = <<>> THEN <<>>
    ELSE LET rest == error_types(SubSeq(messages, 1, Len(messages) - 1))
             msg == messages[Len(messages)]
         IN  IF \E k \in DOMAIN rest : rest[k] = msg THEN rest ELSE Append(rest, msg)

\* Lines 978-1002: one counted check and one error per distinct message.
check_references(s, doc) ==
    LET messages == ref_errors(doc, reference_entries(doc, 1, FALSE))
        types == error_types(messages)
        refs(msg) == Cardinality({k \in DOMAIN messages : messages[k] = msg})
    IN  [s EXCEPT
            !.total_checks = @ + Len(types),
            !.errors = @ \o
                [k \in DOMAIN types |->
                    FormatError(ErrorCategory.REFERENCE,
                                types[k] \o " (" \o ToString(refs(types[k]))
                                    \o " kaynak)",
                                "Kaynakca", "APA 7 formati",
                                ToString(refs(types[k])) \o " kaynak")]]

\* ThesisChecker._check_footnotes: returns at once when the package has no
\* footnotes part; every exception inside it is swallowed.
check_footnotes(s, doc) == s

\* body.xpath('.//w:p | .//w:tbl') from paragraph k and table t on, in
\* document order: the body paragraphs, and each table followed by the
\* paragraphs of its cells (a cell holds at least one w:p; here they are
\* blank).  A table is [after, cells]: the number of body paragraphs before
\* it and the number of its cells.
RECURSIVE body_elements(_, _, _)
body_elements(doc, k, t) ==
    IF t <= Len(doc.tables) /\ doc.tables[t].after < k
    THEN <<[tag |-> "tbl", text |-> <<>>]>>
         \o [c \in 1 .. doc.tables[t].cells |-> [tag |-> "p", text |-> <<>>]]
         \o body_elements(doc, k, t + 1)
    ELSE IF k <= Len(doc.paragraphs)
    THEN <<[tag |-> "p", text |-> Texts(doc)[k]]>> \o body_elements(doc, k + 1, t)
    ELSE <<>>

\* `for j in range(1, 4)` of _check_element_placement without the
\* `if len(text) > 20: break`.
RECURSIVE CaptionAnywhereAbove(_, _, _)
CaptionAnywhereAbove(elements, i, j) ==
    IF j >= 4 THEN FALSE
    ELSE IF i - j < 1 THEN CaptionAnywhereAbove(elements, i, j + 1)
    ELSE LET prev == elements[i - j]
         IN  IF prev.tag = "p" /\ is_table_caption(prev.text) THEN TRUE
             ELSE CaptionAnywhereAbove(elements, i, j + 1)

\* `for j in range(1, 4)` of _check_element_placement from j on, for the
\* element at position i (from 1): the value of found_caption.
RECURSIVE found_caption(_, _, _)
found_caption(elements, i, j) ==
    IF j >= 4 THEN FALSE
    ELSE IF i - j < 1 THEN found_caption(elements, i, j + 1)
    ELSE LET prev == elements[i - j]
         IN  IF prev.tag # "p" \/ prev.text = <<>>
             THEN found_caption(elements, i, j + 1)
             ELSE IF is_table_caption(prev.text) THEN TRUE
             ELSE IF TextLen(prev.text) > 20 THEN FALSE
             ELSE found_caption(elements, i, j + 1)

\* ThesisChecker._check_element_placement: one check and one error per w:tbl
\* element that has no caption above it; figures are not looked at.
check_element_placement(s, doc) ==
    LET elements == body_elements(doc, 1, 1)
        tbls == SelectSeq([i \in DOMAIN elements |-> i],
                          LAMBDA i : elements[i].tag = "tbl")
        uncaptioned == SelectSeq([n \in DOMAIN tbls |-> n],
                                 LAMBDA n : ~found_caption(elements, tbls[n], 1))
    IN  [s EXCEPT !.total_checks = @ + Len(uncaptioned),
                  !.errors = @ \o [k \in DOMAIN uncaptioned |->
                      FormatError(ErrorCategory.TABLE,
                          "Tablo basligi tablonun USTUNDE olmalidir",
                          "Tablo " \o ToString(uncaptioned[k]),
                          "Ustte Baslik", "Eksik veya altta")]]

(***************************************************************************)
(* Reports.  compliance_score is in tenths of a percent (1000 = 100.0).    *)
(***************************************************************************)
required_sections == <<"Ozet", "Abstract", "Giris", "Sonuc", "Kaynakca", "Icindekiler">>

\* min(100.0, passed / total * 100), in tenths before rounding: num / den.
CappedScore(passed, total) ==
    IF passed * 1000 > 1000 * total THEN 1000 * total ELSE passed * 1000

\* Lines 1248-1260 without the deduction for missing sections.
ScoreWithoutPenalty(passed, total, missing) ==
    IF total > 0 THEN RoundDiv(CappedScore(passed, total), total) ELSE 1000

\* Lines 1253-1254 without the max(0, ...).
UnflooredScore(passed, total, missing) ==
    LET num == IF total > 0 THEN CappedScore(passed, total) ELSE 1000
        den == IF total > 0 THEN total ELSE 1
    IN  IF num - 50 * missing * den >= 0
        THEN RoundDiv(num - 50 * missing * den, den)
        ELSE -RoundDiv(50 * missing * den - num, den)

\* Lines 1248-1260: round(score, 1).
compliance_score(passed, total, missing) ==
    LET num == IF total > 0 THEN CappedScore(passed, total) ELSE 1000
        den == IF total > 0 THEN total ELSE 1
        reduced == num - 50 * missing * den
    IN  IF missing = 0 THEN RoundDiv(num, den)
        ELSE IF reduced < 0 THEN 0
        ELSE RoundDiv(reduced, den)

\* location_issues without the test `error.message not in ...["issues"]`.
RECURSIVE UndedupedIssues(_)
UndedupedIssues(errors) ==
    IF errors = <<>> THEN <<>>
    ELSE LET rest == UndedupedIssues(SubSeq(errors, 1, Len(errors) - 1))
             e == errors[Len(errors)]
             same(item) == item.category = e.category /\ item.location = e.location
         IN  IF \E k \in DOMAIN rest : same(rest[k])
             THEN [k \in DOMAIN rest |->
                     IF same(rest[k])
                     THEN [rest[k] EXCEPT !.issues = Append(@, e.message)]
                     ELSE rest[k]]
             ELSE Append(rest, [category |-> e.category, location |-> e.location,
                                issues |-> <<e.message>>])

\* location_issues of _generate_report: one entry per (category, location)
\* in order of first appearance, with the distinct messages.
RECURSIVE location_issues(_)
location_issues(errors) ==
    IF errors = <<>> THEN <<>>
    ELSE LET rest == location_issues(SubSeq(errors, 1, Len(errors) - 1))
             e == errors[Len(errors)]
             same(item) == item.category = e.category /\ item.location = e.location
         IN  IF \E k \in DOMAIN rest : same(rest[k])
             THEN [k \in DOMAIN rest |->
                     IF same(rest[k]) /\ \A j \in DOMAIN rest[k].issues :
                                            rest[k].issues[j] # e.message
                     THEN [rest[k] EXCEPT !.issues = Append(@, e.message)]
                     ELSE rest[k]]
             ELSE Append(rest, [category |-> e.category, location |-> e.location,
                                issues |-> <<e.message>>])

\* ThesisChecker._generate_report
generate_report(s) ==
    LET missing == SelectSeq(required_sections, LAMBDA n : n \notin s.sections_found)
        abstract == SelectSeq(s.errors, LAMBDA e : e.category = ErrorCategory.ABSTRACT)
    IN  [total_errors |-> Len(s.errors),
         total_checks |-> s.total_checks,
         passed_checks |-> s.passed_checks,
         compliance_score |->
             compliance_score(s.passed_checks, s.total_checks, Len(missing)),
         missing_sections |-> missing,
         sections_found |-> Cardinality(s.sections_found),
         sections_required |-> Len(required_sections),
         abstract_issues |-> [k \in DOMAIN abstract |-> abstract[k].message],
         abstract_word_count |-> count_words(s.abstract_text),
         tables_count |-> Len(s.tables_found),
         figures_count |-> Len(s.figures_found),
         toc_headings_count |-> Len(s.toc_headings),
         grouped_errors |-> location_issues(s.errors)]

\* _error_report with an empty grouped_errors.
EmptyErrorReport(error_msg) ==
    [total_errors |-> 0,
     total_checks |-> None,
     passed_checks |-> None,
     compliance_score |-> 0,
     missing_sections |-> <<>>,
     sections_found |-> 0,
     sections_required |-> 6,
     abstract_issues |-> <<>>,
     abstract_word_count |-> None,
     tables_count |-> None,
     figures_count |-> None,
     toc_headings_count |-> None,
     grouped_errors |-> <<>>]

\* ThesisChecker._error_report; the keys it lacks are given as None.
error_report(error_msg) ==
    [total_errors |-> 1,
     total_checks |-> None,
     passed_checks |-> None,
     compliance_score |-> 0,
     missing_sections |-> <<>>,
     sections_found |-> 0,
     sections_required |-> 6,
     abstract_issues |-> <<>>,
     abstract_word_count |-> None,
     tables_count |-> None,
     figures_count |-> None,
     toc_headings_count |-> None,
     grouped_errors |-> <<[category |-> "Dosya Hatasi", location |-> "Dosya",
                          issues |-> <<error_msg>>]>>]

(***************************************************************************)
(* The documents analysed.                                                 *)
(***************************************************************************)
MaxParas == 3

\* Paragraph texts of a thesis body.
Catalogue ==
    { <<"GIRIS">>,
      <<"I.", "GIRIS">>,
      <<"2.3.", "Veri", "Analizi">>,
      <<"Tablo", "1.1:", "Veri">>,
      <<"Tablo", "1.3:", "Analizi">>,
      <<"Sekil", "1.1:", "Veri">>,
      <<"kelime", "kelime", "kelime">> }

\* Lines of a table of contents.
TocEntries ==
    { <<"1.1.", "Kuramsal", "Cerceve", "....", "12">>,
      <<"2.3.", "Veri", "Analizi", "....", "12">> }

Streams(n) == UNION { [1 .. k -> Catalogue] : k \in 0 .. n }

\* Table captions of two chapters after the introduction heading, in every
\* order and with repetitions.
CaptionTexts ==
    { <<"Tablo", n, "Veri">> : n \in {"1.1:", "1.2:", "1.3:", "2.1:"} }

CaptionStreams ==
    { <<<<"I.", "GIRIS">>>> \o st :
        st \in UNION { [1 .. k -> CaptionTexts] : k \in 2 .. MaxParas } }

TocStreams ==
    { <<<<"ICINDEKILER">>, e>> \o st : e \in TocEntries, st \in Streams(MaxParas - 1) }

\* A text of n words.
Words(n) == [k \in 1 .. n |-> "kelime"]

AbstractLengths == {199, 200, 250, 251}

AbstractStreams ==
    { <<<<"OZET">>, Words(n)>> \o tail :
        n \in AbstractLengths, tail \in { <<>>, <<<<"ABSTRACT">>>> } }

\* How a document is formatted: "bare" leaves every property to the
\* document defaults, "styled" takes the guide's values from the base style
\* of the paragraph style, "direct" sets them on every run and paragraph.
Formattings == {"bare", "styled", "direct"}

GuideFormat ==
    [a \in ParagraphAttributes |->
        CASE a = "alignment" -> Some(3)
          [] a = "line_spacing_rule" -> Some(1)
          [] a = "line_spacing" -> Some(<<"float", 150>>)
          [] a = "first_line_indent" -> Some(config.paragraph_first_line_indent)
          [] a = "space_before" -> Some(config.paragraph_spacing_before)
          [] a = "space_after" -> Some(config.paragraph_spacing_after)
          [] OTHER -> None]

\* A chain of styles 1 -> 2 -> ... -> NumStyles; only the last one may
\* define anything.
ChainStyles(formatting) ==
    [s \in StyleIds |->
        IF s < NumStyles THEN EmptyStyle(Some(s + 1))
        ELSE IF formatting = "styled"
        THEN [font_name |-> Some(config.font_name),
              font_size |-> Some(config.font_size_body),
              base_style |-> None, pf |-> GuideFormat]
        ELSE EmptyStyle(None)]

FormattedParagraph(text, formatting) ==
    IF formatting = "direct"
    THEN [Paragraph(<<[Run(text) EXCEPT !.name = Some(config.font_name),
                                        !.size = Some(config.font_size_body)]>>,
                    Some(1))
            EXCEPT !.pf = GuideFormat]
    ELSE Paragraph(<<Run(text)>>, Some(1))

CalibriDefaults ==
    [font_name |-> Some("Calibri"), font_size |-> Some(22), pf |-> NoParagraphFormat]

GuideMargin == Some(config.margin_top)

GuideSection == Section(GuideMargin, GuideMargin, GuideMargin, GuideMargin)

ThesisDocument(stream, formatting, sections) ==
    [MakeDocument([k \in DOMAIN stream |-> FormattedParagraph(stream[k], formatting)],
                  ChainStyles(formatting),
                  IF formatting = "bare" THEN CalibriDefaults ELSE NoDocDefaults)
        EXCEPT !.sections = sections]

\* Measured margins: absent, 0, 2.7, 3.0, 3.05 and 3.3 cm.
MarginValues ==
    {None, Some(0), Some(972000), Some(1080000), Some(1098000), Some(1188000)}

\* A footer that holds the page number field.
NumberedFooter(section) ==
    [section EXCEPT !.footer_paragraphs =
        <<[Paragraph(<<Run(<<"12">>)>>, None) EXCEPT !.pf["alignment"] = Some(1)]>>]

MarginDocuments ==
    { ThesisDocument(<<<<"kelime", "kelime", "kelime">>>>, "bare",
                     <<NumberedFooter(Section(t, b, l, r))>>) :
        t \in MarginValues, b \in MarginValues, l \in MarginValues,
        r \in MarginValues }
    \cup { ThesisDocument(<<>>, "direct", <<>>) }

\* A paragraph indented by 1.25 cm on both sides after the introduction
\* heading: as the guide wants a block quote (11 pt, italic, single line
\* spacing, justified), or in the body format.
BlockQuote(guide) ==
    [Paragraph(<<[Run(<<"kelime", "kelime", "kelime">>)
                    EXCEPT !.name = Some(config.font_name),
                           !.size = Some(IF guide THEN config.font_size_block_quote
                                         ELSE config.font_size_body),
                           !.italic = IF guide THEN Some(TRUE) ELSE None]>>,
               Some(1))
        EXCEPT !.pf = [GuideFormat EXCEPT
                          !["left_indent"] = Some(450000),
                          !["right_indent"] = Some(450000),
                          !["line_spacing_rule"] = IF guide THEN Some(0) ELSE @,
                          !["line_spacing"] = IF guide THEN None ELSE @]]

BlockQuoteDocuments ==
    { [MakeDocument(<<FormattedParagraph(<<"I.", "GIRIS">>, "direct"),
                      BlockQuote(guide)>>,
                    ChainStyles("direct"), NoDocDefaults)
          EXCEPT !.sections = <<GuideSection>>] : guide \in BOOLEAN }

\* The chapter heading "SONUC VE ONERILER" after the introduction heading,
\* its three words in three runs of which those in `bold` carry w:b.
PartlyBoldHeading(bold) ==
    LET word(k) == <<"SONUC", "VE", "ONERILER">>[k]
    IN  [Paragraph([k \in 1 .. 3 |->
                      [Run(<<word(k)>>)
                          EXCEPT !.name = Some(config.font_name),
                                 !.size = Some(config.font_size_chapter_heading),
                                 !.bold = IF k \in bold THEN Some(TRUE) ELSE None]],
                   Some(1))
            EXCEPT !.pf = [GuideFormat EXCEPT !["alignment"] = Some(1)]]

BoldHeadingDocuments ==
    { [MakeDocument(<<FormattedParagraph(<<"I.", "GIRIS">>, "direct"),
                      PartlyBoldHeading(bold)>>,
                    ChainStyles("direct"), NoDocDefaults)
          EXCEPT !.sections = <<GuideSection>>] :
        bold \in { {1, 2, 3}, {1, 3}, {1, 2}, {} } }

\* Documents with tables: after the introduction heading up to MaxParas
\* paragraphs (a table caption, a text of 20 characters, a text of 27
\* characters, a blank paragraph), then a table, and in some a second table
\* after the first.
BeforeTable ==
    { <<"Tablo", "1.1:", "Veri">>, Words(3), Words(4), <<>> }

TableDocuments ==
    { [ThesisDocument(<<<<"I.", "GIRIS">>>> \o st, "direct", <<GuideSection>>)
          EXCEPT !.tables = [t \in 1 .. n |-> [after |-> Len(st) + 1, cells |-> cells]]] :
        st \in UNION { [1 .. k -> BeforeTable] : k \in 0 .. MaxParas },
        n \in {1, 2}, cells \in {1, 3} }

\* A cover line ("YUKSEK LISANS TEZI" matches COVER_PATTERNS), left-aligned,
\* in the given font and size, before the introduction heading.
CoverLine(name, size) ==
    [Paragraph(<<[Run(<<"YUKSEK", "LISANS", "TEZI">>)
                    EXCEPT !.name = Some(name), !.size = Some(size)]>>, Some(1))
        EXCEPT !.pf = [GuideFormat EXCEPT !["alignment"] = Some(0)]]

CoverDocuments ==
    { [MakeDocument(<<CoverLine(name, size),
                      FormattedParagraph(<<"I.", "GIRIS">>, "direct")>>,
                    ChainStyles("direct"), NoDocDefaults)
          EXCEPT !.sections = <<GuideSection>>] :
        name \in {config.font_name, "Arial"}, size \in {config.font_size_body, 40} }

\* A reference list ("KAYNAKCA" and one entry without italics, hanging by
\* 1 cm or not at all) after the lines `before`.
BibliographyEntry(indent) ==
    [Paragraph(<<[Run(<<"Yilmaz,", "A.", "(2021).", "Tez", "yazimi.">>)
                    EXCEPT !.name = Some(config.font_name),
                           !.size = Some(config.font_size_body)]>>, Some(1))
        EXCEPT !.pf["first_line_indent"] = indent,
               !.pf["space_before"] = Some(3 * EMU_PER_PT),
               !.pf["space_after"] = Some(3 * EMU_PER_PT)]

\* What precedes the reference list: nothing, the introduction heading (the
\* body has begun), or the table-of-contents line
\* "KAYNAKCA .... 12" followed by a text or by the heading of the abstract.
BeforeBibliography ==
    { <<>>,
      << <<"I.", "GIRIS">> >>,
      << <<"KAYNAKCA", "....", "12">>, Words(3) >>,
      << <<"KAYNAKCA", "....", "12">>, <<"OZET">> >> }

BibliographyDocuments ==
    { [MakeDocument([k \in DOMAIN before |-> FormattedParagraph(before[k], "direct")]
                      \o <<FormattedParagraph(<<"KAYNAKCA">>, "direct"),
                           BibliographyEntry(indent)>>,
                    ChainStyles("direct"), NoDocDefaults)
          EXCEPT !.sections = <<GuideSection>>] :
        before \in BeforeBibliography, indent \in {None, Some(-EMU_PER_CM)} }

\* Files that Document(path) cannot open, with the text of the exception.
Unloadable ==
    [MakeDocument(<<>>, <<>>, NoDocDefaults)
        EXCEPT !.loadable = FALSE, !.load_error = Some("Package not found")]

NotAZipFile == [Unloadable EXCEPT !.load_error = Some("File is not a zip file")]

\* A document that names every required section in its front matter (the
\* headings of the abstracts and of the table of contents, two lines of the
\* table of contents, the heading of the introduction) and has no body yet,
\* formatted as the guide asks, with a footer or without one.
FrontMatterStream ==
    << <<"OZET">>, <<"ABSTRACT">>, <<"ICINDEKILER">>, <<"SONUC", "....", "45">>,
       <<"KAYNAKCA", "....", "50">>, <<"I.", "GIRIS">> >>

GuideFooter(section) ==
    [section EXCEPT !.footer_paragraphs =
        <<[Paragraph(<<[Run(<<"12">>) EXCEPT !.name = Some(config.font_name),
                                             !.size = Some(20)]>>, None)
              EXCEPT !.pf["alignment"] = Some(1)]>>]

FrontMatterDocuments ==
    { ThesisDocument(FrontMatterStream, "direct", <<section>>) :
        section \in {GuideSection, GuideFooter(GuideSection)} }

Documents ==
    { ThesisDocument(st, f, <<GuideSection>>) :
        st \in Streams(MaxParas) \cup TocStreams \cup AbstractStreams,
        f \in Formattings }
    \cup MarginDocuments
    \cup BlockQuoteDocuments
    \cup BoldHeadingDocuments
    \cup TableDocuments
    \cup CoverDocuments
    \cup BibliographyDocuments
    \cup FrontMatterDocuments
    \cup { ThesisDocument(st, "direct", <<GuideSection>>) : st \in CaptionStreams }
    \cup {Unloadable, NotAZipFile}

(***************************************************************************)
(* ThesisChecker.analyze, one action per statement of its body and per     *)
(* iteration of the paragraph loop.                                        *)
(***************************************************************************)
Init ==
    /\ document \in Documents
    /\ self = FreshChecker
    /\ pc = "analyze"
    /\ loop = NoLoop
    /\ report = None
    /\ lookup = IdleLookup
    /\ trace = NoTrace

\* ThesisChecker._reset
reset(s) ==
    [s EXCEPT !.errors = <<>>, !.sections_found = {}, !.abstract_text = <<>>,
              !.cover_ended_at = 0, !.total_checks = 0, !.passed_checks = 0,
              !.toc_headings = <<>>, !.tables_found = <<>>,
              !.figures_found = <<>>, !.in_references = FALSE,
              !.headings_found = <<>>]

\* A pass that changes the checker only and hands over to the next pass.
Pass(at, next, s) ==
    /\ pc = at
    /\ self' = s
    /\ pc' = next
    /\ UNCHANGED <<document, loop, report, lookup, trace>>

\* analyze, lines 80-86: reset, load, build the resolver; a load failure
\* returns the error report alone.
Load ==
    /\ pc = "analyze"
    /\ IF document.loadable
       THEN /\ self' = [reset(self) EXCEPT !.resolver = TRUE]
            /\ pc' = "find_cover_end"
            /\ report' = report
       ELSE /\ self' = reset(self)
            /\ pc' = "returned"
            /\ report' = Some([value |-> error_report(Val(document.load_error)),
                               with_document |-> FALSE])
    /\ UNCHANGED <<document, loop, lookup, trace>>

FindCoverEnd ==
    Pass("find_cover_end", "parse_toc",
         [self EXCEPT !.cover_ended_at = find_cover_end(self, document)])

ParseToc ==
    Pass("parse_toc", "find_sections",
         [self EXCEPT !.toc_headings = parse_toc(Texts(document), 1, FALSE, @)])

FindSections == Pass("find_sections", "check_abstract", find_sections(self, document))

CheckAbstract == Pass("check_abstract", "check_margins", check_abstract(self))

CheckMargins == Pass("check_margins", "check_paragraphs", check_margins(self, document))

CheckParagraph ==
    /\ pc = "check_paragraphs"
    /\ loop.i < Len(document.paragraphs)
    /\ \E step \in {paragraph_step(self, loop, loop.i)} :
           /\ self' = step.self
           /\ loop' = [i |-> loop.i + 1, in_toc_list |-> step.in_toc_list,
                       in_front_matter |-> step.in_front_matter]
           /\ trace' = [trace EXCEPT
                          !.normal = IF step.normal THEN @ \cup {loop.i} ELSE @,
                          !.classified = IF step.classified THEN @ \cup {loop.i} ELSE @,
                          !.families = @ \cup {<<loop.i, f>> : f \in step.families}]
           /\ pc' = IF step.raised THEN "raised" ELSE pc
    /\ UNCHANGED <<document, report, lookup>>

CheckTables ==
    /\ loop.i = Len(document.paragraphs)
    /\ Pass("check_paragraphs", "check_table_figure_numbering",
            check_tables(self, document))

CheckTableFigureNumbering ==
    Pass("check_table_figure_numbering", "check_references",
         check_table_figure_numbering(self))

CheckReferences ==
    Pass("check_references", "check_toc_consistency", check_references(self, document))

CheckTocConsistency ==
    Pass("check_toc_consistency", "check_page_numbers", check_toc_consistency(self))

CheckPageNumbers ==
    Pass("check_page_numbers", "check_footnotes", check_page_numbers(self, document, 0))

CheckFootnotes ==
    Pass("check_footnotes", "check_element_placement", check_footnotes(self, document))

CheckElementPlacement ==
    Pass("check_element_placement", "generate_report",
         check_element_placement(self, document))

\* return self._generate_report(), self.document
GenerateReport ==
    /\ pc = "generate_report"
    /\ report' = Some([value |-> generate_report(self), with_document |-> TRUE])
    /\ pc' = "returned"
    /\ UNCHANGED <<document, self, loop, lookup, trace>>

Next ==
    \/ Load
    \/ FindCoverEnd
    \/ ParseToc
    \/ FindSections
    \/ CheckAbstract
    \/ CheckMargins
    \/ CheckParagraph
    \/ CheckTables
    \/ CheckTableFigureNumbering
    \/ CheckReferences
    \/ CheckTocConsistency
    \/ CheckPageNumbers
    \/ CheckFootnotes
    \/ CheckElementPlacement
    \/ GenerateReport

Spec == Init /\ [][Next]_vars

(***************************************************************************)
(* Properties of analyze.                                                  *)
(***************************************************************************)
Errors == {self.errors[k] : k \in DOMAIN self.errors}

ErrorsAt(location) == {e \in Errors : e.location = location}

HasReturned == report # None

\* The passes that follow the one at position p of analyze.
Finished(p) ==
    LET order == <<"analyze", "find_cover_end", "parse_toc", "find_sections",
                   "check_abstract", "check_margins", "check_paragraphs",
                   "check_table_figure_numbering", "check_references",
                   "check_toc_consistency", "check_page_numbers",
                   "check_footnotes", "check_element_placement",
                   "generate_report", "returned">>
        at(q) == CHOOSE k \in DOMAIN order : order[k] = q
    IN  pc # "raised" /\ at(pc) > at(p)

\* C1: for every document that loads, analyze runs all of its checks and
\* returns a report; no exception escapes it, also when a chapter heading
\* or a numbered subheading reaches the heading-format rules.
C1_NoExceptionEscapes == document.loadable => pc # "raised"

\* C2: in every state reachable during analyze and in the final report,
\* 0 <= passed_checks <= total_checks.
C2_PassedWithinTotal ==
    /\ 0 <= self.passed_checks
    /\ self.passed_checks <= self.total_checks
    /\ (HasReturned /\ Val(report).with_document) =>
          /\ 0 <= Val(report).value.passed_checks
          /\ Val(report).value.passed_checks <= Val(report).value.total_checks

\* C3: the compliance_score of every report analyze returns, on the success
\* path and on the load-failure path, lies between 0 and 100.
C3_ScoreInRange ==
    HasReturned =>
        /\ 0 <= Val(report).value.compliance_score
        /\ Val(report).value.compliance_score <= 1000

\* A report of a run that passed more checks than it counted.
C3_Witness ==
    /\ HasReturned
    /\ Val(report).with_document
    /\ Val(report).value.passed_checks > Val(report).value.total_checks
    /\ Val(report).value.missing_sections # <<>>

\* The paragraphs that follow the OZET heading of a document that opens
\* with it, up to the next section heading.
AbstractBody ==
    IF Len(document.paragraphs) >= 2 /\ Texts(document)[1] = <<"OZET">>
    THEN Texts(document)[2]
    ELSE <<>>

AbstractIssues == {e \in Errors : e.category = ErrorCategory.ABSTRACT}

\* C4: _find_sections extracts the paragraphs after the OZET heading as the
\* abstract text, and _check_abstract records exactly one abstract issue for
\* 199 or 251 words and none, with one passed check, for 200 or 250 words.
C4_AbstractBoundary ==
    (pc = "check_margins" /\ Len(AbstractBody) \in AbstractLengths) =>
        /\ self.abstract_text = AbstractBody
        /\ Len(AbstractBody) \in {199, 251} => Cardinality(AbstractIssues) = 1
        /\ Len(AbstractBody) \in {200, 250} =>
              /\ AbstractIssues = {}
              /\ self.passed_checks = 1

\* What the normal-paragraph rules (body size, alignment, line spacing,
\* first-line indent, paragraph spacing) report for paragraph k.
NormalRuleIssues(k) ==
    LET rs == AtLocation(check_normal_paragraph_format(document.paragraphs[k]).issues,
                         Location(k - 1))
    IN  {rs[j] : j \in DOMAIN rs}

\* C6: a paragraph whose text matches the chapter-heading pattern is never
\* passed to _check_normal_paragraph_format, and no issue of the
\* normal-paragraph rules is recorded at its location.
C6_ChapterHeadingsNotNormal ==
    \A k \in DOMAIN document.paragraphs :
        is_chapter_heading(Texts(document)[k]) =>
            /\ (k - 1) \notin trace.normal
            /\ Errors \cap NormalRuleIssues(k) = {}

\* A chapter heading went through the classification of _check_paragraphs.
C6_Witness ==
    /\ loop.i >= 1
    /\ is_chapter_heading(Texts(document)[loop.i])
    /\ self.headings_found # <<>>

\* The table registry after _check_table_figure_numbering holds exactly the
\* captions 1.1 and 1.3.
C7_Registry ==
    /\ Finished("check_table_figure_numbering")
    /\ Len(self.tables_found) = 2
    /\ {self.tables_found[k] : k \in DOMAIN self.tables_found}
          = { <<"1", "1">>, <<"1", "3">> }

TableNumberingIssues(expected, found) ==
    { e \in Errors : /\ e.category = ErrorCategory.NUMBERING
                     /\ e.location = "Tablo Numaralandirma"
                     /\ e.expected = expected
                     /\ e.found = found }

\* C7: with table captions 1.1 and 1.3 and no 1.2 in the registry,
\* _check_table_figure_numbering records a numbering issue whose expected
\* field is "1, 2, 3, ..." and whose found field is "1, 3".
C7_CaptionContinuity ==
    C7_Registry => TableNumberingIssues("1, 2, 3, ...", "1, 3") # {}

\* C7 with the expected field "1, 2, ...".
C7_ExpectedOneTwo ==
    C7_Registry => TableNumberingIssues("1, 2, ...", "1, 3") # {}

C7_Witness == C7_Registry /\ TableNumberingIssues("1, 2, 3, ...", "1, 3") # {}

\* The numbered headings of the body that follow the GIRIS heading and match
\* no entry of the parsed table of contents.
UnlistedHeadings ==
    LET toc == parse_toc(Texts(document), 1, FALSE, <<>>)
        matches(h, key) ==
            \/ Clean(h) = Clean(key)
            \/ CleanIn(Clean(h), Clean(key))
            \/ CleanIn(Clean(key), Clean(h))
    IN  { k \in DOMAIN document.paragraphs :
            /\ toc # <<>>
            /\ is_numbered_heading(Texts(document)[k])
            /\ \E j \in 1 .. k - 1 : Texts(document)[j] = <<"GIRIS">>
            /\ \A n \in DOMAIN toc : ~matches(UpperText(Texts(document)[k]), toc[n].key) }

\* C8: when the parsed TOC is not empty and a numbered heading after the
\* introduction heading matches no TOC entry, the analysis records a
\* section issue that names the heading as missing from the TOC.
C8_TocCrossCheck ==
    (pc \in {"returned", "raised"} /\ document.loadable) =>
        \A k \in UnlistedHeadings :
            \E e \in Errors :
                /\ e.category = ErrorCategory.SECTION
                /\ e.message = "Metindeki baslik Icindekiler'de bulunamadi: "
                                  \o JoinWords(UpperText(Texts(document)[k]))

\* A run with no direct font under a style chain that defines no font, in a
\* document whose default font is Calibri.
FallsBackToCalibri(para, run) ==
    /\ DirectFontName(run) = None
    /\ ChainValue(document.styles, RunParentStyle(para), "font_name", "") = None
    /\ document.doc_defaults.font_name = Some("Calibri")

\* C9: such a run resolves to "Calibri", and the font rule, once it has run
\* on the paragraph, has recorded a font issue at the paragraph.
C9_StyleFallback ==
    \A k \in DOMAIN document.paragraphs :
        \A r \in NonBlankRuns(document.paragraphs[k]) :
            FallsBackToCalibri(document.paragraphs[k], document.paragraphs[k].runs[r]) =>
                /\ get_effective_font_name(document, document.paragraphs[k],
                                           document.paragraphs[k].runs[r]) = "Calibri"
                /\ (loop.i >= k /\ TextLen(Texts(document)[k]) > 3) =>
                      \E e \in ErrorsAt(Location(k - 1)) :
                          /\ e.category = ErrorCategory.FONT
                          /\ e.expected = "Times New Roman"
                          /\ e.found = "Calibri"

C9_Witness ==
    \E k \in DOMAIN document.paragraphs :
        /\ loop.i >= k
        /\ \E r \in NonBlankRuns(document.paragraphs[k]) :
              FallsBackToCalibri(document.paragraphs[k], document.paragraphs[k].runs[r])
        /\ \E e \in ErrorsAt(Location(k - 1)) :
              e.category = ErrorCategory.FONT /\ e.found = "Calibri"

\* C10: for each of the four margins of the first section whose measured
\* value is present, zero included, _check_margins counts it as failed
\* exactly when |measured - configured| > margin_tolerance_cm.
C10_MarginTolerance ==
    (pc = "check_paragraphs" /\ loop.i = 0 /\ document.sections # <<>>) =>
        LET margins == SectionMargins(document.sections[1])
            exceeds(k) ==
                /\ margins[k][1] # None
                /\ Abs(Val(margins[k][1]) - margins[k][2]) > config.margin_tolerance_cm
            failed == {k \in 1 .. 4 : exceeds(k)}
        IN  /\ self.total_checks = 4
            /\ self.passed_checks = 4 - Cardinality(failed)
            /\ (failed # {}) <=> (\E e \in Errors : e.category = ErrorCategory.MARGIN)

(***************************************************************************)
(* C5: every attribute lookup of the resolver terminates for every style   *)
(* graph, a graph whose base-style links form a cycle included: a lookup   *)
(* that was called eventually returns.                                     *)
(***************************************************************************)
C5_LookupTerminates == (lookup.state # "idle") ~> (lookup.state = "done")

(***************************************************************************)
(* Properties of the report.                                               *)
(***************************************************************************)
\* The report that analyze returned for a loaded document.
Returned_report == Val(report).value

ReportReturned == pc = "returned" /\ report # None /\ Val(report).with_document

\* The position at which a (category, location, message) was first recorded.
FirstRecorded(category, location, message) ==
    CHOOSE k \in DOMAIN self.errors :
        /\ self.errors[k].category = category
        /\ self.errors[k].location = location
        /\ self.errors[k].message = message
        /\ \A j \in 1 .. k - 1 :
              ~(/\ self.errors[j].category = category
                /\ self.errors[j].location = location
                /\ self.errors[j].message = message)

\* C13: in the grouped errors of every report each (category, location)
\* has exactly one entry, whose messages are pairwise distinct and in the
\* order in which they were first recorded, and every recorded
\* (category, location, message) is in the grouped report.
C13_AggregatorDeduplication ==
    ReportReturned =>
        LET grouped == Returned_report.grouped_errors
        IN  /\ \A i, j \in DOMAIN grouped :
                  (grouped[i].category = grouped[j].category
                   /\ grouped[i].location = grouped[j].location) => i = j
            /\ \A g \in DOMAIN grouped : \A i, j \in DOMAIN grouped[g].issues :
                  /\ grouped[g].issues[i] = grouped[g].issues[j] => i = j
                  /\ \E e \in Errors : /\ e.category = grouped[g].category
                                       /\ e.location = grouped[g].location
                                       /\ e.message = grouped[g].issues[i]
                  /\ i < j =>
                       FirstRecorded(grouped[g].category, grouped[g].location,
                                     grouped[g].issues[i])
                       < FirstRecorded(grouped[g].category, grouped[g].location,
                                       grouped[g].issues[j])
            /\ \A e \in Errors : \E g \in DOMAIN grouped :
                  /\ grouped[g].category = e.category
                  /\ grouped[g].location = e.location
                  /\ \E i \in DOMAIN grouped[g].issues : grouped[g].issues[i] = e.message

\* A report for a run that recorded the same message twice at one
\* (category, location) and two different messages at another.
C13_Witness ==
    /\ ReportReturned
    /\ \E i, j \in DOMAIN self.errors :
          /\ i < j
          /\ self.errors[i].category = self.errors[j].category
          /\ self.errors[i].location = self.errors[j].location
          /\ self.errors[i].message = self.errors[j].message
    /\ \E g \in DOMAIN Returned_report.grouped_errors :
          Len(Returned_report.grouped_errors[g].issues) > 1

\* C14: the reported compliance_score is clamp(passed_checks / total_checks
\* * 100, 0, 100), 100 when total_checks is 0, less 5 for each missing
\* required section, floored at 0 and rounded to one decimal.
C14_ScoreFormula ==
    ReportReturned =>
        LET p == self.passed_checks
            t == self.total_checks
            m == Cardinality({k \in DOMAIN required_sections :
                                 required_sections[k] \notin self.sections_found})
            den == IF t = 0 THEN 1 ELSE t
            ratio == IF t = 0 THEN 100
                     ELSE IF p < 0 THEN 0
                     ELSE IF p > t THEN 100 * t
                     ELSE 100 * p
            value == IF ratio - 5 * m * den < 0 THEN 0 ELSE ratio - 5 * m * den
            score == Returned_report.compliance_score
        IN  2 * Abs(score * den - 10 * value) <= den

\* A report whose score is a proper ratio, reduced for missing sections and
\* rounded.
C14_Witness ==
    /\ ReportReturned
    /\ 0 < self.passed_checks
    /\ self.passed_checks < self.total_checks
    /\ Returned_report.missing_sections # <<>>
    /\ Returned_report.compliance_score > 0
    /\ (1000 * self.passed_checks) % self.total_checks # 0

\* C15: when the document cannot be loaded, analyze performs no check,
\* raises nothing and returns a minimal report: compliance_score 0,
\* total_errors 1 and one grouped entry carrying the load error message.
C15_FatalLoadFailure ==
    (~document.loadable /\ pc # "analyze") =>
        /\ pc = "returned"
        /\ report # None
        /\ ~Val(report).with_document
        /\ Val(report).value.compliance_score = 0
        /\ Val(report).value.total_errors = 1
        /\ Len(Val(report).value.grouped_errors) = 1
        /\ Val(report).value.grouped_errors[1].issues = <<Val(document.load_error)>>
        /\ self.total_checks = 0
        /\ self.passed_checks = 0
        /\ self.errors = <<>>

\* analyze has returned for a file that could not be opened.
C15_Witness == ~document.loadable /\ pc = "returned" /\ report # None

\* C17: for every paragraph that reaches classification exactly one rule
\* family is evaluated (table caption, figure caption, chapter heading,
\* numbered subheading, block quote or normal paragraph); a block quote is
\* evaluated against the block-quote rules only.
C17_ExactlyOneRuleFamily ==
    \A i \in trace.classified :
        /\ Cardinality({pair \in trace.families : pair[1] = i}) = 1
        /\ <<i, "block_quote">> \in trace.families
              => <<i, "normal">> \notin trace.families

\* The numbering issues recorded for one caption type and chapter.
ChapterNumberingIssues(item_type, chapter) ==
    { e \in Errors : /\ e.category = ErrorCategory.NUMBERING
                     /\ e.location = item_type \o " Numaralandirma"
                     /\ e.message = "Bolum " \o chapter \o "'de " \o item_type
                                       \o " numaralandirmasi sirali degil" }

\* The item numbers of a chapter are 1..N, each once, in whatever order.
NumberedOneToN(items, chapter) ==
    LET nums == NumsOf(items, chapter)
    IN  \A n \in 1 .. Len(nums) :
            Cardinality({k \in DOMAIN nums : nums[k] = n}) = 1

Registries == { <<"Tablo", self.tables_found>>, <<"Sekil", self.figures_found>> }

\* C18: for each caption type and chapter, _check_table_figure_numbering
\* records a numbering issue exactly when the item numbers registered for the
\* chapter are not 1..N (a gap or a duplicate), whatever the order in which
\* the captions were met.
C18_CaptionNumberingRule ==
    Finished("check_table_figure_numbering") =>
        \A r \in Registries :
            \A k \in DOMAIN r[2] :
                (ChapterNumberingIssues(r[1], r[2][k][1]) # {})
                    <=> ~NumberedOneToN(r[2], r[2][k][1])

\* Captions 1.2 and 1.1 met in that order: no numbering issue.
C18_Witness ==
    /\ Finished("check_table_figure_numbering")
    /\ self.tables_found = << <<"1", "2">>, <<"1", "1">> >>
    /\ ChapterNumberingIssues("Tablo", "1") = {}

\* Captions 1.1 and 1.1: a duplicate is flagged.
C18_DuplicateFlagged ==
    /\ Finished("check_table_figure_numbering")
    /\ self.tables_found = << <<"1", "1">>, <<"1", "1">> >>
    /\ ChapterNumberingIssues("Tablo", "1") # {}

\* The texts, upper-cased, of the paragraphs that _check_paragraphs
\* classified as chapter heading or numbered subheading.
ClassifiedHeadings ==
    { UpperText(Texts(document)[pair[1] + 1]) :
        pair \in { q \in trace.families :
                      q[2] \in {"chapter_heading", "numbered_subheading"} } }

\* A TOC entry equals, contains or is contained in a classified heading
\* after stripping whitespace and dots.
MatchedInBody(key) ==
    \E h \in ClassifiedHeadings :
        \/ Clean(h) = Clean(key)
        \/ CleanIn(Clean(h), Clean(key))
        \/ CleanIn(Clean(key), Clean(h))

MissingFromBodyIssues(errors, key) ==
    { k \in DOMAIN errors :
        /\ errors[k].category = ErrorCategory.SECTION
        /\ errors[k].message = "Icindekiler'de yer alan baslik metinde bulunamadi: "
                                  \o JoinWords(key) }

\* C19: for every entry of the parsed TOC map the first loop of
\* _check_toc_consistency records exactly one section issue when no heading
\* classified in the body matches it, and no issue and one passed check when
\* one does; every classified heading is in the heading registry; and the
\* analysis of a document with a TOC entry reaches that comparison.
C19_TocToBody ==
    /\ \A h \in ClassifiedHeadings :
          \E k \in DOMAIN self.headings_found : self.headings_found[k] = h
    /\ (pc = "check_toc_consistency" /\ self.toc_headings # <<>>) =>
          LET after == toc_in_text(self)
              matched == { n \in DOMAIN self.toc_headings :
                              MatchedInBody(self.toc_headings[n].key) }
          IN  /\ after.passed_checks - self.passed_checks = Cardinality(matched)
              /\ \A n \in DOMAIN self.toc_headings :
                    Cardinality(MissingFromBodyIssues(after.errors,
                                                      self.toc_headings[n].key))
                        - Cardinality(MissingFromBodyIssues(self.errors,
                                                            self.toc_headings[n].key))
                      = IF n \in matched THEN 0 ELSE 1
    /\ (pc \in {"returned", "raised"} /\ document.loadable) =>
          \A n \in DOMAIN self.toc_headings :
              /\ pc = "returned"
              /\ Cardinality(MissingFromBodyIssues(self.errors,
                                                   self.toc_headings[n].key))
                    = IF MatchedInBody(self.toc_headings[n].key) THEN 0 ELSE 1

\* The parts of C19 that do not depend on the analysis reaching the TOC pass.
C19_FirstLoop ==
    /\ \A h \in ClassifiedHeadings :
          \E k \in DOMAIN self.headings_found : self.headings_found[k] = h
    /\ (pc = "check_toc_consistency" /\ self.toc_headings # <<>>) =>
          \A n \in DOMAIN self.toc_headings :
              /\ ~MatchedInBody(self.toc_headings[n].key)
              /\ MissingFromBodyIssues(toc_in_text(self).errors,
                                       self.toc_headings[n].key) # {}

(***************************************************************************)
(* Properties of the heading rules, the tally and the skip policy.         *)
(***************************************************************************)
\* The paragraphs (from 1) that _check_paragraphs classified as chapter
\* heading or numbered subheading.
HeadingParagraphs ==
    { k \in DOMAIN document.paragraphs :
        \E f \in {"chapter_heading", "numbered_subheading"} :
            <<k - 1, f>> \in trace.families }

\* More than 80% of the characters of the non-blank runs are in bold runs.
MostlyBold(para) ==
    LET chars(R) == SumSeq([k \in DOMAIN para.runs |->
                              IF k \in R THEN TextLen(para.runs[k].text) ELSE 0])
        bold == {k \in NonBlankRuns(para) : para.runs[k].bold = Some(TRUE)}
    IN  /\ NonBlankRuns(para) # {}
        /\ 5 * chars(bold) > 4 * chars(NonBlankRuns(para))

MustBeBoldIssues(k) ==
    { e \in ErrorsAt(Location(k - 1)) :
        e.category = ErrorCategory.HEADING /\ e.expected = "Koyu" }

\* C21: the bold verdict of a heading is true exactly when more than 80% of
\* its non-blank run characters are bold (no style of these documents sets
\* bold); a heading judged bold gets no "must be bold" issue and one with
\* 80% or less gets one.
C21_BoldThreshold ==
    \A k \in HeadingParagraphs :
        LET para == document.paragraphs[k]
            verdict == is_paragraph_bold(para)
        IN  /\ ~verdict.raised
            /\ verdict.value = MostlyBold(para)
            /\ (MustBeBoldIssues(k) = {}) <=> MostlyBold(para)

\* What one invocation of a rule must add to the tally: one check, and one
\* passed check exactly when it appended no issue.
TalliedAsOne(before, after) ==
    /\ after.total_checks - before.total_checks = 1
    /\ after.passed_checks - before.passed_checks
          = IF Len(after.errors) = Len(before.errors) THEN 1 ELSE 0

\* The number of invocations of the caption-continuity rule: one per caption
\* type and chapter of the registries.
ContinuityInvocations ==
    Len(ChaptersOf(self.tables_found)) + Len(ChaptersOf(self.figures_found))

\* C22: every invocation of a rule adds exactly one to total_checks and one
\* to passed_checks exactly when it produces no issue: the caption-number
\* rule on a caption paragraph, the caption-continuity rule per caption type
\* and chapter, and the table-placement rule per table.
C22_CheckTally ==
    [][ /\ (pc = "check_paragraphs" /\ <<loop.i, "table_caption">> \in trace'.families) =>
              TalliedAsOne(self, check_table_caption(self, Texts(document)[loop.i + 1],
                                                     Location(loop.i)))
        /\ (pc = "check_table_figure_numbering" /\ pc' = "check_references") =>
              /\ self'.total_checks - self.total_checks = ContinuityInvocations
              /\ self'.passed_checks - self.passed_checks
                    = ContinuityInvocations - (Len(self'.errors) - Len(self.errors))
        /\ (pc = "check_element_placement" /\ pc' = "generate_report") =>
              /\ self'.total_checks - self.total_checks = Len(document.tables)
              /\ self'.passed_checks - self.passed_checks
                    = Len(document.tables) - (Len(self'.errors) - Len(self.errors))
      ]_vars

\* C22 for the table-placement rule alone.
C22_PlacementTally ==
    [][ (pc = "check_element_placement" /\ pc' = "generate_report") =>
              /\ self'.total_checks - self.total_checks = Len(document.tables)
              /\ self'.passed_checks - self.passed_checks
                    = Len(document.tables) - (Len(self'.errors) - Len(self.errors))
      ]_vars

\* C22 for the caption-continuity rule alone.
C22_ContinuityTally ==
    [][ (pc = "check_table_figure_numbering" /\ pc' = "check_references") =>
              /\ self'.total_checks - self.total_checks = ContinuityInvocations
              /\ self'.passed_checks - self.passed_checks
                    = ContinuityInvocations - (Len(self'.errors) - Len(self.errors))
      ]_vars

\* The paragraphs (from 1) the loop of _check_paragraphs has gone through
\* and found in a skip zone: before the cover end or matching a cover
\* pattern.
SkippedParagraphs ==
    { k \in 1 .. loop.i :
        /\ TextLen(Texts(document)[k]) > 3
        /\ is_cover_or_skip(k - 1, Texts(document)[k]) }

\* A run of the paragraph is more than the tolerance away from every font
\* size of the configuration.
OffEverySize(para) ==
    \A expected \in { config.font_size_body, config.font_size_block_quote,
                      config.font_size_chapter_heading, config.font_size_subheading,
                      config.font_size_table_caption, config.font_size_table_content } :
        WrongSizes(para, expected) # {}

IssuesOf(k, categories) ==
    { e \in ErrorsAt(Location(k - 1)) : e.category \in categories }

\* C23: for a paragraph in a skip zone the font-name check and the font-size
\* check are both evaluated (a wrong font and a wrong size are each
\* reported), and the paragraph-body rules are not (no alignment, indent,
\* spacing or line-spacing issue).
C23_SkipPolicy ==
    (pc = "check_paragraphs" /\ Finished("find_cover_end")) =>
        \A k \in SkippedParagraphs :
            LET para == document.paragraphs[k]
            IN  /\ WrongFonts(para) # {} => IssuesOf(k, {ErrorCategory.FONT}) # {}
                /\ OffEverySize(para) => IssuesOf(k, {ErrorCategory.FONT_SIZE}) # {}
                /\ IssuesOf(k, {ErrorCategory.PARAGRAPH, ErrorCategory.LINE_SPACING}) = {}

\* C23 without the font-size check.
C23_FontOnly ==
    (pc = "check_paragraphs" /\ Finished("find_cover_end")) =>
        \A k \in SkippedParagraphs :
            LET para == document.paragraphs[k]
            IN  /\ WrongFonts(para) # {} => IssuesOf(k, {ErrorCategory.FONT}) # {}
                /\ IssuesOf(k, {ErrorCategory.FONT_SIZE, ErrorCategory.PARAGRAPH,
                                ErrorCategory.LINE_SPACING}) = {}

(***************************************************************************)
(* The scan of the reference list.                                         *)
(***************************************************************************)
\* The paragraphs (from 1) of the bibliography section: after the KAYNAKCA
\* chapter heading up to the next chapter heading, the blank ones and the
\* noise left out.
BibliographyEntries ==
    LET texts == Texts(document)
        headings == {k \in DOMAIN texts : UpperText(texts[k]) = <<"KAYNAKCA">>}
        h == CHOOSE k \in headings : \A j \in headings : k <= j
        ends == {k \in DOMAIN texts : k > h /\ is_chapter_heading(texts[k])}
                  \cup {Len(texts) + 1}
        end == CHOOSE k \in ends : \A j \in ends : k <= j
        entries == {k \in h + 1 .. end - 1 :
                      texts[k] # <<>> /\ ~is_reference_noise(texts[k])}
    IN  IF headings = {} THEN <<>> ELSE SortedSeq(entries)

\* The messages _check_references records when the five rules are evaluated
\* on the given paragraphs.
ReferenceMessages(entries) ==
    LET messages == ref_errors(document, entries)
        refs(msg) == Cardinality({k \in DOMAIN messages : messages[k] = msg})
    IN  { messages[k] \o " (" \o ToString(refs(messages[k])) \o " kaynak)" :
            k \in DOMAIN messages }

RecordedReferenceMessages ==
    { e.message : e \in {x \in Errors : x.category = ErrorCategory.REFERENCE} }

EarlierKaynakcaLine ==
    /\ Len(document.paragraphs) >= 1
    /\ Texts(document)[1] = <<"KAYNAKCA", "....", "12">>

\* C24: _check_references evaluates the reference rules on the paragraphs of
\* the bibliography section and on no other paragraph, also when a
\* table-of-contents line containing KAYNAKCA precedes the bibliography
\* heading.
C24_ReferenceScan ==
    Finished("check_references") =>
        RecordedReferenceMessages = ReferenceMessages(BibliographyEntries)

\* C24 for the documents in which no line containing KAYNAKCA precedes the
\* bibliography heading.
C24_WithoutEarlierLine ==
    (Finished("check_references") /\ ~EarlierKaynakcaLine) =>
        RecordedReferenceMessages = ReferenceMessages(BibliographyEntries)

\* After the line "KAYNAKCA .... 12" and the heading of the abstract the
\* scan has ended: the entry of the bibliography is not evaluated.
C24_ScanEndsEarly ==
    (Finished("check_references") /\ EarlierKaynakcaLine
       /\ Texts(document)[2] = <<"OZET">>) => RecordedReferenceMessages = {}

(***************************************************************************)
(* The phases of the classification pass.                                  *)
(***************************************************************************)
\* The issues a step of the paragraph loop appends.
Appended == SubSeq(self'.errors, Len(self.errors) + 1, Len(self'.errors))

\* The issues the normal-paragraph rules give for paragraph k, those of the
\* font rule left out (the loop evaluates the font rule for every paragraph
\* before it classifies).
NormalLayoutIssues(k) ==
    {e \in NormalRuleIssues(k) : e.category # ErrorCategory.FONT}

\* C26: in the paragraph loop in_front_matter changes only from true to
\* false and in_references only from false to true, and once in_references
\* is true no later paragraph is evaluated against the normal-paragraph
\* rules.
C26_PhasesOnlyAdvance ==
    [][ (pc = "check_paragraphs" /\ loop.i < Len(document.paragraphs)) =>
            /\ loop'.in_front_matter => loop.in_front_matter
            /\ self.in_references => self'.in_references
            /\ self.in_references =>
                  /\ trace'.normal = trace.normal
                  /\ \A k \in DOMAIN Appended :
                        Appended[k] \notin NormalLayoutIssues(loop.i + 1)
      ]_vars

\* A paragraph of the body that follows the KAYNAKCA line has been
\* classified and was not given the normal-paragraph rules, although they
\* have issues for it.
C26_Witness ==
    /\ pc = "check_paragraphs"
    /\ self.in_references
    /\ ~loop.in_front_matter
    /\ (loop.i - 1) \in trace.classified \ trace.normal
    /\ NormalLayoutIssues(loop.i) # {}
    /\ Errors \cap NormalLayoutIssues(loop.i) = {}

(***************************************************************************)
(* Table placement.                                                        *)
(***************************************************************************)
Elements == body_elements(document, 1, 1)

\* The positions in Elements of the tables, in document order.
TablePositions ==
    SelectSeq([i \in DOMAIN Elements |-> i], LAMBDA i : Elements[i].tag = "tbl")

\* A recognized table caption is among the at most 3 elements before the
\* element at position i, with nothing but tables, blank paragraphs and
\* paragraphs of at most 20 characters between it and the element.
CaptionInWindow(i) ==
    \E j \in 1 .. 3 :
        /\ i - j >= 1
        /\ Elements[i - j].tag = "p"
        /\ is_table_caption(Elements[i - j].text)
        /\ \A h \in 1 .. j - 1 :
              \/ Elements[i - h].tag = "tbl"
              \/ TextLen(Elements[i - h].text) <= 20

PlacementIssues(n) ==
    { k \in DOMAIN self.errors :
        /\ self.errors[k].category = ErrorCategory.TABLE
        /\ self.errors[k].message = "Tablo basligi tablonun USTUNDE olmalidir"
        /\ self.errors[k].location = "Tablo " \o ToString(n) }

\* C25: for each table, in document order, _check_element_placement records
\* a table issue exactly when no table caption is found in the window of the
\* 3 elements before it; it records nothing else.
C25_TablePlacement ==
    Finished("check_element_placement") =>
        /\ \A n \in DOMAIN TablePositions :
              Cardinality(PlacementIssues(n))
                 = IF CaptionInWindow(TablePositions[n]) THEN 0 ELSE 1
        /\ \A e \in Errors :
              e.category \in {ErrorCategory.TABLE, ErrorCategory.FIGURE} =>
                  \E n \in DOMAIN TablePositions :
                      \E k \in PlacementIssues(n) : e = self.errors[k]

\* A caption, a paragraph of 27 characters and then a table: the search
\* stops at the paragraph and the table is flagged.
C25_Witness ==
    /\ Finished("check_element_placement")
    /\ \E n \in DOMAIN TablePositions :
          LET i == TablePositions[n]
          IN  /\ i >= 3
              /\ TextLen(Elements[i - 1].text) > 20
              /\ is_table_caption(Elements[i - 2].text)
              /\ PlacementIssues(n) # {}

\* A caption, a blank paragraph, a paragraph of 20 characters and then a
\* table: the caption is found and the table is not flagged.
C25_CaptionFound ==
    /\ Finished("check_element_placement")
    /\ \E n \in DOMAIN TablePositions :
          LET i == TablePositions[n]
          IN  /\ i >= 4
              /\ is_table_caption(Elements[i - 3].text)
              /\ Elements[i - 2].text = <<>>
              /\ PlacementIssues(n) = {}

(***************************************************************************)
(* Repeated analyses.  A caller analyses a document and then a second one, *)
(* either with the same ThesisChecker in the same interpreter process or   *)
(* with a new ThesisChecker in a new process, whose string hash seed is    *)
(* drawn anew.                                                             *)
(***************************************************************************)
HashSeeds == {0, 1}

\* A paragraph whose two runs are set in two fonts other than the guide's.
MixedFontParagraph ==
    Paragraph(<<[Run(<<"kelime", "kelime">>) EXCEPT !.name = Some("Arial")],
                [Run(<<"kelime">>) EXCEPT !.name = Some("Verdana")]>>, Some(1))

MixedFontDocument ==
    [MakeDocument(<<MixedFontParagraph>>, ChainStyles("styled"), NoDocDefaults)
        EXCEPT !.sections = <<GuideSection>>]

RunDocuments ==
    { ThesisDocument(<<<<"ABSTRACT">>>>, "direct", <<GuideSection>>),
      ThesisDocument(<<<<"I.", "GIRIS">>, <<"Tablo", "1.1:", "Veri">>>>, "bare",
                     <<GuideSection>>),
      ThesisDocument(<<<<"GIRIS">>>>, "direct", <<GuideSection>>),
      MixedFontDocument,
      Unloadable }

InitRuns ==
    /\ document \in RunDocuments
    /\ self = FreshChecker
    /\ pc = "analyze"
    /\ loop = NoLoop
    /\ report = None
    /\ lookup = IdleLookup
    /\ \E h \in HashSeeds : trace = [NoTrace EXCEPT !.hash_seed = h]

\* The caller's second call of analyze, after the first one returned or
\* raised.
AnalyzeAgain ==
    /\ pc \in {"returned", "raised"}
    /\ trace.run = 1
    /\ \E d \in RunDocuments, same_process \in BOOLEAN, h \in HashSeeds :
          /\ same_process => h = trace.hash_seed
          /\ document' = d
          /\ self' = IF same_process THEN self ELSE FreshChecker
          /\ trace' = [hash_seed |-> h, normal |-> {}, classified |-> {},
                       families |-> {}, run |-> 2,
                       first |-> [document |-> document, report |-> report,
                                  same_process |-> same_process]]
    /\ pc' = "analyze"
    /\ loop' = NoLoop
    /\ report' = None
    /\ UNCHANGED lookup

NextRuns ==
    \/ Next
    \/ AnalyzeAgain

SpecRuns == InitRuns /\ [][NextRuns]_vars

\* C11: two analyses of the same unmodified document with the same
\* configuration, in the same process or in separate processes, return
\* identical reports, the text and the order of every message included.
C11_Determinism ==
    (/\ trace.run = 2
     /\ pc = "returned"
     /\ trace.first.document = document
     /\ trace.first.report # None) => report = trace.first.report

\* C12: after _reset at the start of every analyze call every state field
\* of the checker has its constructor-time value, also when the checker has
\* analysed another document before.
C12_FreshStatePerRun ==
    (pc = "find_cover_end") => [self EXCEPT !.resolver = FALSE] = FreshChecker

(***************************************************************************)
(* Reference lists.  A document of a "KAYNAKCA" heading and one entry, in  *)
(* the guide's font, analysed by a checker that was constructed with a     *)
(* configuration whose reference_hanging_indent is 1.0 or 1.5 cm.          *)
(***************************************************************************)
\* first_line_indent of an entry: absent, 0, -1.0, -1.5, -0.75, -1.2 and
\* +1.0 cm.
HangingIndents ==
    {None, Some(0), Some(-360000), Some(-540000), Some(-270000), Some(-432000),
     Some(360000)}

ReferenceEntry(indent, italic) ==
    [Paragraph(<<[Run(<<"Yilmaz,", "A.", "(2021).", "Tez", "yazimi.">>)
                    EXCEPT !.name = Some(config.font_name),
                           !.size = Some(config.font_size_body),
                           !.italic = italic]>>, Some(1))
        EXCEPT !.pf["first_line_indent"] = indent,
               !.pf["space_before"] = Some(3 * EMU_PER_PT),
               !.pf["space_after"] = Some(3 * EMU_PER_PT)]

ReferenceDocuments ==
    { [MakeDocument(<<FormattedParagraph(<<"KAYNAKCA">>, "direct"),
                      ReferenceEntry(indent, italic)>>,
                    ChainStyles("direct"), NoDocDefaults)
          EXCEPT !.sections = <<GuideSection>>] :
        indent \in HangingIndents, italic \in {None, Some(TRUE)} }

ConfiguredHangingIndents == {360000, 540000}

InitReferences ==
    /\ document \in ReferenceDocuments
    /\ \E h \in ConfiguredHangingIndents :
          self = [FreshChecker EXCEPT !.config.reference_hanging_indent = h]
    /\ pc = "analyze"
    /\ loop = NoLoop
    /\ report = None
    /\ lookup = IdleLookup
    /\ trace = NoTrace

SpecReferences == InitReferences /\ [][Next]_vars

\* The messages of the hanging-indent rule as they are recorded for a list
\* of one entry.
HangingIndentMessages ==
    { "Asili girinti eksik (1 cm asili girinti olmali) (1 kaynak)",
      "Asili girinti yok (1 cm asili girinti olmali) (1 kaynak)" }
    \cup { "Asili girinti " \o FmtTenths(x) \o "cm (1 cm olmali) (1 kaynak)" :
             x \in 0 .. 30 }

ReferencesChecked ==
    pc \in {"check_toc_consistency", "check_page_numbers", "check_footnotes",
            "check_element_placement", "generate_report", "returned"}

FlaggedForHangingIndent ==
    \E e \in Errors : /\ e.category = ErrorCategory.REFERENCE
                      /\ e.message \in HangingIndentMessages

\* The magnitude of the hanging indent of the entry (0 when the first line
\* does not hang).
HangingIndentOfEntry ==
    LET emu == OrElse(document.paragraphs[2].pf["first_line_indent"], 0)
    IN  IF emu < 0 THEN -emu ELSE 0

\* C16: the hanging-indent rule takes its expected magnitude from the
\* option reference_hanging_indent: an entry whose hanging indent equals the
\* configured value is not flagged for hanging indent, and one that differs
\* from it by more than the rule's tolerance (0.2 cm) is flagged.
C16_ConfiguredHangingIndent ==
    ReferencesChecked =>
        LET h == self.config.reference_hanging_indent
        IN  /\ HangingIndentOfEntry = h => ~FlaggedForHangingIndent
            /\ 5 * Abs(HangingIndentOfEntry - h) > EMU_PER_CM
                  => FlaggedForHangingIndent


(***************************************************************************)
(* Character styles.  The runs of these documents carry a character style  *)
(* (w:rStyle) of the style table besides the style of their paragraph.     *)
(***************************************************************************)
CharacterStyleRuns ==
    { [r EXCEPT !.rstyle = Some(s)] :
        r \in { Run(<<"metin">>), [Run(<<"metin">>) EXCEPT !.name = Some("Times New Roman"),
                                                   !.size = Some(20)] },
        s \in StyleIds }

InitCharacterStyles ==
    /\ \E t \in StyleTables, r \in CharacterStyleRuns, d \in TargetDocDefaults,
          st \in {None} \cup {Some(s) : s \in StyleIds} :
          document = MakeDocument(<<Paragraph(<<r>>, st)>>, MakeStyles(t), d)
    /\ self = [FreshChecker EXCEPT !.resolver = TRUE]
    /\ pc = "resolver"
    /\ loop = NoLoop
    /\ report = None
    /\ lookup = IdleLookup
    /\ trace = NoTrace

SpecCharacterStyles == InitCharacterStyles /\ [][NextResolver]_vars

\* The first value a style chain defines, looking at no more styles than the
\* table has.
RECURSIVE FirstDefinedWithin(_, _, _, _)
FirstDefinedWithin(styles, st, fn, n) ==
    IF st = None \/ n = 0 THEN None
    ELSE LET v == StyleValue(styles, Val(st), fn, "")
         IN  IF v # None THEN v
             ELSE FirstDefinedWithin(styles, styles[Val(st)].base_style, fn, n - 1)

\* The levels of the resolution order for the run of the lookup, first to
\* last: direct run formatting, the run's character-style chain, the
\* paragraph's style chain, the document defaults or the hard fallback.
ResolutionLevels(fn) ==
    LET run == TargetParagraph.runs[lookup.run]
    IN  << IF fn = "font_name" THEN DirectFontName(run) ELSE DirectFontSize(run),
           FirstDefinedWithin(document.styles, run.rstyle, fn, Len(document.styles)),
           FirstDefinedWithin(document.styles, TargetParagraph.style, fn,
                              Len(document.styles)),
           ChainEndValue(document, fn, "") >>

FirstDefinedLevel(levels) ==
    levels[CHOOSE k \in DOMAIN levels :
              levels[k] # None /\ \A j \in 1 .. k - 1 : levels[j] = None]

FontLookupDone ==
    lookup.state = "done" /\ lookup.fn \in {"font_name", "font_size"}

\* C20: a finished lookup of a run's font name or font size returns the
\* first defined value in the order direct run formatting, the run's
\* character-style chain, the paragraph's style chain, document defaults,
\* hard fallback; a character style that defines the font wins over the
\* paragraph's styles.
C20_ResolutionOrder ==
    FontLookupDone => lookup.result = FirstDefinedLevel(ResolutionLevels(lookup.fn))

\* C20 without the character-style level.
C20_WithoutCharacterStyle ==
    FontLookupDone =>
        LET levels == ResolutionLevels(lookup.fn)
        IN  lookup.result = FirstDefinedLevel(<<levels[1], levels[3], levels[4]>>)


(***************************************************************************)
(* Line spacing given as an exact height.                                  *)
(***************************************************************************)
\* The first value of a paragraph attribute in a style chain, looking at no
\* more styles than the table has.
RECURSIVE FirstAttributeWithin(_, _, _, _)
FirstAttributeWithin(styles, st, attr, n) ==
    IF st = None \/ n = 0 THEN None
    ELSE LET v == StyleParagraphAttribute(styles, Val(st), attr)
         IN  IF v # None THEN v
             ELSE FirstAttributeWithin(styles, styles[Val(st)].base_style, attr, n - 1)

\* The line_spacing_rule and line_spacing the paragraph resolves to.
ResolvedAttribute(attr) ==
    FirstDefinedLevel(
        << TargetParagraph.pf[attr],
           FirstAttributeWithin(document.styles, TargetParagraph.style, attr,
                                Len(document.styles)),
           DefaultParagraphAttribute(document, attr),
           Some(None) >>)

\* The font size, in half-points, the first run of the paragraph resolves to.
ResolvedBaseSize ==
    Val(FirstDefinedLevel(
        << DirectFontSize(TargetParagraph.runs[1]),
           FirstDefinedWithin(document.styles, TargetParagraph.style, "font_size",
                              Len(document.styles)),
           ChainEndValue(document, "font_size", "") >>))

\* get_effective_line_spacing has returned for a paragraph whose line spacing
\* is an exact height (no named rule, a Length value).
ExactSpacingDone ==
    /\ lookup.state = "done" /\ lookup.fn = "line_spacing"
    /\ lookup.rule \notin {Some(0), Some(1), Some(2)}
    /\ ResolvedAttribute("line_spacing") # Some(None)
    /\ Val(ResolvedAttribute("line_spacing"))[1] = "length"

\* C27: for an exact-point line spacing get_effective_line_spacing returns
\* the point value divided by the resolved base font size, to the one
\* decimal it rounds to (result in hundredths of a line, height in EMU, size
\* in half-points).
C27_ExactSpacingBySize ==
    ExactSpacingDone =>
        LET emu == Val(ResolvedAttribute("line_spacing"))[2]
            den == EMU_PER_PT * ResolvedBaseSize
        IN  Abs(Val(lookup.result) * den - 200 * emu) <= 5 * den

\* C27 with 12 pt in the place of the resolved base font size.
C27_ExactSpacingByTwelve ==
    ExactSpacingDone =>
        LET emu == Val(ResolvedAttribute("line_spacing"))[2]
            den == EMU_PER_PT * 24
        IN  Abs(Val(lookup.result) * den - 200 * emu) <= 5 * den


(***************************************************************************)
(* The hard fallback of the font name.  Two runs are compared: the run of  *)
(* the paragraph, for which no level defines a font name, and the same run *)
(* with the fallback's value as its direct formatting.                     *)
(***************************************************************************)
NoLevelDefinesFontName ==
    /\ DirectFontName(TargetParagraph.runs[1]) = None
    /\ FirstDefinedWithin(document.styles, TargetParagraph.style, "font_name",
                          Len(document.styles)) = None
    /\ document.doc_defaults.font_name = None

ExplicitTwin == [TargetParagraph EXCEPT !.runs[1].name = Some(FallbackFontName)]

FallbackLookupDone ==
    lookup.state = "done" /\ lookup.fn = "font_name" /\ NoLevelDefinesFontName

\* C28: a font name that comes from the hard fallback because no level
\* defines it is distinguishable from the same name set explicitly: the
\* resolver's results for the two runs, or the issues _check_font reports
\* for them, differ.
C28_FallbackDistinguishable ==
    FallbackLookupDone =>
        \/ lookup.result
             # Some(get_effective_font_name(document, ExplicitTwin, ExplicitTwin.runs[1]))
        \/ check_font(TargetParagraph).issues # check_font(ExplicitTwin).issues

\* The two runs give one resolver result and one issue.
C28_SameResultAndIssue ==
    FallbackLookupDone =>
        /\ lookup.result
             = Some(get_effective_font_name(document, ExplicitTwin, ExplicitTwin.runs[1]))
        /\ check_font(TargetParagraph) = check_font(ExplicitTwin)
        /\ Len(check_font(ExplicitTwin).issues) = 1


(***************************************************************************)
(* The shape of what analyze returns.  The callers run_test and            *)
(* verify_file unpack it into two names.                                   *)
(***************************************************************************)
\* The keys of the dict _error_report builds.
ErrorReportKeys ==
    {"total_errors", "compliance_score", "grouped_errors", "missing_sections",
     "abstract_issues", "sections_found", "sections_required"}

\* `results, marked_doc = analyze_thesis(...)` succeeds: the value is the
\* (report, document) tuple, or a bare dict that iterates over two keys.
UnpacksIntoTwo(returned) ==
    returned.with_document \/ Cardinality(ErrorReportKeys) = 2

\* C29: whatever path analyze returns on, the load failure included, the
\* returned value is a (report, document) pair, and a caller that unpacks
\* two values does not fail on it.
C29_ResultShape ==
    report # None => Val(report).with_document /\ UnpacksIntoTwo(Val(report))

\* C29 for the documents that load.
C29_PairWhenLoaded ==
    report # None /\ document.loadable => Val(report).with_document


(***************************************************************************)
(* The score of a run that records nothing.                                *)
(***************************************************************************)
\* analyze returned its report, no issue was recorded and no required
\* section is missing.
CleanRun ==
    /\ report # None /\ Val(report).with_document
    /\ self.errors = <<>>
    /\ Val(report).value.grouped_errors = <<>>
    /\ Val(report).value.missing_sections = <<>>

\* C30: a run that records no issue at all and misses no required section
\* reports compliance_score 100 (in tenths of a percent: 1000): every check
\* counted in total_checks is also counted in passed_checks.
C30_CleanScoresHundred ==
    CleanRun =>
        /\ Val(report).value.compliance_score = 1000
        /\ Val(report).value.passed_checks = Val(report).value.total_checks

\* In a clean run the checks that were counted and not passed are one per
\* section of the document.
C30_OneUnpassedPerSection ==
    CleanRun =>
        Val(report).value.total_checks - Val(report).value.passed_checks
            = Len(document.sections)

====
